---- MODULE Spec2Model ----
(***************************************************************************)
(* pubz: dependency-ordered multi-package release pipeline.                *)
(*                                                                         *)
(* Strings that the program parses, formats or inspects by character       *)
(* (versions, dependency specifiers, tag names) are sequences of           *)
(* one-character strings; names that are only compared (package names,     *)
(* registry URLs, bump types) are atomic strings.                          *)
(***************************************************************************)
EXTENDS Integers, Sequences, FiniteSets, TLC

VARIABLES
  call,   \* the pure function being applied and its arguments (function specs)
  ret,    \* its result
  run,    \* the state of one execution of main()
  twin    \* a second execution of main() on the same workspace (SpecPair)

vars == <<call, ret, run, twin>>

(***************************************************************************)
(* JavaScript strings and numbers                                          *)
(***************************************************************************)

DigitChars == <<"0", "1", "2", "3", "4", "5", "6", "7", "8", "9">>

IsDigit(c) == \E i \in 1..10 : DigitChars[i] = c

DigitVal(c) == (CHOOSE i \in 1..10 : DigitChars[i] = c) - 1

\* A JavaScript value of the kinds bumpVersion computes with.
Num(n) == [k |-> "num", v |-> n]
NaN == [k |-> "nan", v |-> 0]
Undefined == [k |-> "undefined", v |-> 0]

RECURSIVE ParseDigits(_)
ParseDigits(s) ==
  IF s = <<>> THEN 0
  ELSE 10 * ParseDigits(SubSeq(s, 1, Len(s) - 1)) + DigitVal(s[Len(s)])

\* Number(str) for strings over digits and non-numeric characters: the empty
\* string is 0, a digit string is its decimal value, anything else is NaN.
Number(s) ==
  IF \A i \in 1..Len(s) : IsDigit(s[i]) THEN Num(ParseDigits(s)) ELSE NaN

RECURSIVE NatToStr(_)
NatToStr(n) ==
  IF n < 10 THEN <<DigitChars[n + 1]>>
  ELSE NatToStr(n \div 10) \o <<DigitChars[(n % 10) + 1]>>

\* `${value}` in a template string.
ToStr(x) ==
  CASE x.k = "num" -> NatToStr(x.v)
    [] x.k = "nan" -> <<"N", "a", "N">>
    [] OTHER -> <<"u", "n", "d", "e", "f", "i", "n", "e", "d">>

\* value + 1: undefined + 1 and NaN + 1 are NaN.
Plus1(x) == IF x.k = "num" THEN Num(x.v + 1) ELSE NaN

\* String.prototype.split(sep) for a one-character separator.
RECURSIVE Split(_, _)
Split(s, sep) ==
  IF \A i \in 1..Len(s) : s[i] # sep THEN <<s>>
  ELSE LET i == CHOOSE j \in 1..Len(s) :
                  s[j] = sep /\ \A k \in 1..(j - 1) : s[k] # sep
       IN <<SubSeq(s, 1, i - 1)>> \o Split(SubSeq(s, i + 1, Len(s)), sep)

\* String.prototype.startsWith(c) for a one-character prefix.
StartsWith(s, c) == Len(s) >= 1 /\ s[1] = c

\* Array destructuring: the i-th element, or undefined past the end.
At(parts, i) == IF i <= Len(parts) THEN Number(parts[i]) ELSE Undefined

(***************************************************************************)
(* version.ts: bumpVersion                                                 *)
(***************************************************************************)

VersionBumpType == {"major", "minor", "patch", "none"}

bumpVersion_dropZero(version, type) ==
  IF type = "none" THEN version
  ELSE LET parts == Split(version, ".")
           major == At(parts, 1)
           minor == At(parts, 2)
           patch == At(parts, 3)
       IN CASE type = "major" -> ToStr(Plus1(major)) \o <<".", "0", ".", "0">>
            [] type = "minor" ->
                 ToStr(major) \o <<".">> \o ToStr(Plus1(minor)) \o <<".">> \o ToStr(patch)
            [] OTHER ->
                 ToStr(major) \o <<".">> \o ToStr(minor) \o <<".">> \o ToStr(Plus1(patch))

bumpVersion(version, type) ==
  IF type = "none" THEN version
  ELSE LET parts == Split(version, ".")
           major == At(parts, 1)
           minor == At(parts, 2)
           patch == At(parts, 3)
       IN CASE type = "major" -> ToStr(Plus1(major)) \o <<".", "0", ".", "0">>
            [] type = "minor" ->
                 ToStr(major) \o <<".">> \o ToStr(Plus1(minor)) \o <<".", "0">>
            [] OTHER ->
                 ToStr(major) \o <<".">> \o ToStr(minor) \o <<".">> \o ToStr(Plus1(patch))

previewBump(version, type) ==
  version \o <<" ", "-", ">", " ">> \o bumpVersion(version, type)

(***************************************************************************)
(* discovery.ts: sortByDependencyOrder                                     *)
(***************************************************************************)

\* A DiscoveredPackage (types.ts). path and packageJsonPath are both given by
\* the package's directory.
Pkg(name, version, dir, isPrivate, localDependencies) ==
  [name |-> name, version |-> version, path |-> dir, isPrivate |-> isPrivate,
   localDependencies |-> localDependencies]

\* new Map(packages.map((p) => [p.name, p])): has() and get(); a later entry
\* of the same name replaces an earlier one.
packageMapHas(packages, name) == \E i \in 1..Len(packages) : packages[i].name = name

packageMapGet(packages, name) ==
  LET i == CHOOSE j \in 1..Len(packages) :
             /\ packages[j].name = name
             /\ \A k \in (j + 1)..Len(packages) : packages[k].name # name
  IN packages[i]

RECURSIVE visit(_, _, _)
RECURSIVE visitDeps(_, _, _, _)

\* function visit(pkg), on the closure state st = [sorted, visited].
visit(packages, pkg, st) ==
  IF pkg.name \in st.visited THEN st
  ELSE LET marked == [st EXCEPT !.visited = @ \cup {pkg.name}]
           after == visitDeps(packages, pkg.localDependencies, 1, marked)
       IN [after EXCEPT !.sorted = Append(@, pkg)]

\* for (const depName of pkg.localDependencies) { ... visit(dep) }
visitDeps(packages, deps, i, st) ==
  IF i > Len(deps) THEN st
  ELSE visitDeps(packages, deps, i + 1,
                 IF packageMapHas(packages, deps[i])
                 THEN visit(packages, packageMapGet(packages, deps[i]), st)
                 ELSE st)

\* The same, with the dependencies visited after the package is pushed.
visit_pushFirst(packages, pkg, st) ==
  IF pkg.name \in st.visited THEN st
  ELSE visitDeps(packages, pkg.localDependencies, 1,
                 [visited |-> st.visited \cup {pkg.name},
                  sorted |-> Append(st.sorted, pkg)])

RECURSIVE sortLoop(_, _, _)
\* for (const pkg of packages) visit(pkg)
sortLoop(packages, i, st) ==
  IF i > Len(packages) THEN st
  ELSE sortLoop(packages, i + 1, visit(packages, packages[i], st))

\* The same loop, stopping before the last package of the input.
sortByDependencyOrder_dropLast(packages) ==
  LET st == sortLoop(SubSeq(packages, 1, Len(packages) - 1), 1,
                     [sorted |-> <<>>, visited |-> {}])
  IN st.sorted

\* The same, with visit pushing a package before its dependencies.
RECURSIVE sortLoop_pushFirst(_, _, _)
sortLoop_pushFirst(packages, i, st) ==
  IF i > Len(packages) THEN st
  ELSE sortLoop_pushFirst(packages, i + 1, visit_pushFirst(packages, packages[i], st))

sortByDependencyOrder_pushFirst(packages) ==
  sortLoop_pushFirst(packages, 1, [sorted |-> <<>>, visited |-> {}]).sorted

\* The same, iterating the input from its end.
RECURSIVE sortLoopDown(_, _, _)
sortLoopDown(packages, i, st) ==
  IF i < 1 THEN st
  ELSE sortLoopDown(packages, i - 1, visit(packages, packages[i], st))

sortByDependencyOrder_reverse(packages) ==
  sortLoopDown(packages, Len(packages), [sorted |-> <<>>, visited |-> {}]).sorted

sortByDependencyOrder(packages) ==
  sortLoop(packages, 1, [sorted |-> <<>>, visited |-> {}]).sorted

(***************************************************************************)
(* version.ts: updatePackageVersion, updateLocalDependencyVersions         *)
(*                                                                         *)
(* A manifest (PackageJson, types.ts) is the parsed document: JSON.parse   *)
(* and JSON.stringify keep its keys, their order and their values. A       *)
(* dependency map is the sequence of its [name, spec] entries in key       *)
(* order; a map the manifest does not have is the empty sequence (the code *)
(* skips both). fs = [disk, writes]: disk maps a package directory to its  *)
(* manifest, writes lists the directories whose manifest was written.      *)
(***************************************************************************)

depTypes == <<"dependencies", "devDependencies", "peerDependencies">>

\* main, bin and exports are what verifyBuild reads. A file is the sequence of
\* its path segments. main is a file, or empty when absent; bin is the list of
\* its files (one for a string, the values for an object, none when absent);
\* exports is the file of a string or of a string "." entry, or empty for any
\* other shape. workspaces is the pattern list of the
\* root manifest (empty when absent).
Manifest(name, version, private, dependencies, devDependencies, peerDependencies) ==
  [name |-> name, version |-> version, private |-> private,
   dependencies |-> dependencies, devDependencies |-> devDependencies,
   peerDependencies |-> peerDependencies,
   main |-> <<>>, bin |-> <<>>, exports |-> <<>>, workspaces |-> <<>>]

writeFile(fs, path, packageJson) ==
  [disk |-> [fs.disk EXCEPT ![path] = packageJson],
   writes |-> Append(fs.writes, path)]

\* The same, returning before the write whether or not this is a dry run.
updatePackageVersion_noWrite(fs, pkg, newVersion, dryRun) == fs

\* The same, writing in a dry run too.
updatePackageVersion_ignoreDryRun(fs, pkg, newVersion, dryRun) ==
  writeFile(fs, pkg.path, [fs.disk[pkg.path] EXCEPT !.version = newVersion])

updatePackageVersion(fs, pkg, newVersion, dryRun) ==
  LET packageJson == [fs.disk[pkg.path] EXCEPT !.version = newVersion]
  IN IF dryRun THEN fs ELSE writeFile(fs, pkg.path, packageJson)

\* The same, without the ~ case.
newVersionSpec_noTilde(oldVersion, newVersion) ==
  IF StartsWith(oldVersion, "^") THEN <<"^">> \o newVersion ELSE newVersion

\* oldVersion.startsWith('^') ? `^${newVersion}` : ... ? `~${newVersion}` : newVersion
newVersionSpec(oldVersion, newVersion) ==
  IF StartsWith(oldVersion, "^") THEN <<"^">> \o newVersion
  ELSE IF StartsWith(oldVersion, "~") THEN <<"~">> \o newVersion
  ELSE newVersion

\* The same, rewriting every entry whatever package its key names.
rewriteDeps_anyKey(deps, packageNames, newVersion, dryRun) ==
  [i \in 1..Len(deps) |->
     IF deps[i].spec # newVersionSpec(deps[i].spec, newVersion) /\ ~dryRun
     THEN [deps[i] EXCEPT !.spec = newVersionSpec(deps[i].spec, newVersion)]
     ELSE deps[i]]

\* The inner loop over Object.keys(deps): the entries after the rewrite.
rewriteDeps(deps, packageNames, newVersion, dryRun) ==
  [i \in 1..Len(deps) |->
     IF /\ deps[i].name \in packageNames
        /\ deps[i].spec # newVersionSpec(deps[i].spec, newVersion)
        /\ ~dryRun
     THEN [deps[i] EXCEPT !.spec = newVersionSpec(deps[i].spec, newVersion)]
     ELSE deps[i]]

\* The same, writing back the manifest with the version the package had in
\* memory.
updateLocalDependencyVersionsOf_staleVersion(fs, pkg, packageNames, newVersion, dryRun) ==
  LET packageJson == [fs.disk[pkg.path] EXCEPT !.version = pkg.version]
      rewritten ==
        [packageJson EXCEPT
           !.dependencies = rewriteDeps(@, packageNames, newVersion, dryRun),
           !.devDependencies = rewriteDeps(@, packageNames, newVersion, dryRun),
           !.peerDependencies = rewriteDeps(@, packageNames, newVersion, dryRun)]
      modified == rewritten # packageJson
  IN IF modified /\ ~dryRun THEN writeFile(fs, pkg.path, rewritten) ELSE fs

\* The same, writing the manifest whether or not an entry changed.
updateLocalDependencyVersionsOf_alwaysWrite(fs, pkg, packageNames, newVersion, dryRun) ==
  LET packageJson == fs.disk[pkg.path]
      rewritten ==
        [packageJson EXCEPT
           !.dependencies = rewriteDeps(@, packageNames, newVersion, dryRun),
           !.devDependencies = rewriteDeps(@, packageNames, newVersion, dryRun),
           !.peerDependencies = rewriteDeps(@, packageNames, newVersion, dryRun)]
  IN IF ~dryRun THEN writeFile(fs, pkg.path, rewritten) ELSE fs

\* The body of the loop over packages, for one package.
updateLocalDependencyVersionsOf(fs, pkg, packageNames, newVersion, dryRun) ==
  LET packageJson == fs.disk[pkg.path]
      rewritten ==
        [packageJson EXCEPT
           !.dependencies = rewriteDeps(@, packageNames, newVersion, dryRun),
           !.devDependencies = rewriteDeps(@, packageNames, newVersion, dryRun),
           !.peerDependencies = rewriteDeps(@, packageNames, newVersion, dryRun)]
      modified == rewritten # packageJson
  IN IF modified /\ ~dryRun THEN writeFile(fs, pkg.path, rewritten) ELSE fs

RECURSIVE updateLocalDependencyVersionsFrom(_, _, _, _, _, _)
updateLocalDependencyVersionsFrom(fs, packages, i, packageNames, newVersion, dryRun) ==
  IF i > Len(packages) THEN fs
  ELSE updateLocalDependencyVersionsFrom(
         updateLocalDependencyVersionsOf(fs, packages[i], packageNames, newVersion, dryRun),
         packages, i + 1, packageNames, newVersion, dryRun)

updateLocalDependencyVersions(fs, packages, newVersion, dryRun) ==
  LET packageNames == {packages[i].name : i \in 1..Len(packages)}
  IN updateLocalDependencyVersionsFrom(fs, packages, 1, packageNames, newVersion, dryRun)

(***************************************************************************)
(* discovery.ts: discoverPackages                                          *)
(*                                                                         *)
(* A workspace is [disk, listing]: disk maps a directory (a path, as the   *)
(* sequence of its segments; the root is the empty path) to the manifest   *)
(* in it, and is undefined where there is no package.json; listing is the  *)
(* readdir result of packages/, a sequence of [name, isDirectory], or      *)
(* NoDir when there is no packages/ directory.                             *)
(***************************************************************************)

Root == <<>>
NoDir == <<[name |-> "", isDirectory |-> FALSE]>>

\* The same, without the packages/ prefix.
PackagesPath_flat(name) == <<name>>

\* join('packages', entry.name), then resolve(cwd, dir)
PackagesPath(name) == <<"packages", name>>

\* findRootPackageJson / stat: is there a package.json in dir?
HasManifest(disk, dir) == dir \in DOMAIN disk

\* getWorkspacePatterns
getWorkspacePatterns(packageJson) == packageJson.workspaces

\* glob(pattern, cwd): "packages/*" matches the immediate subdirectories of
\* packages/ that hold a manifest; a pattern whose root does not exist
\* matches nothing.
glob(ws, pattern) ==
  IF pattern = "packages/*" /\ ws.listing # NoDir
  THEN LET IsMember(e) == e.isDirectory /\ HasManifest(ws.disk, PackagesPath(e.name))
           members == SelectSeq(ws.listing, IsMember)
       IN [i \in 1..Len(members) |-> PackagesPath(members[i].name)]
  ELSE <<>>

RECURSIVE globAll(_, _)
\* for (const pattern of workspacePatterns) packageDirs.push(...matches)
globAll(ws, patterns) ==
  IF patterns = <<>> THEN <<>>
  ELSE glob(ws, Head(patterns)) \o globAll(ws, Tail(patterns))

packageFromPath(path, packageJson, localDependencies) ==
  Pkg(packageJson.name, packageJson.version, path, packageJson.private = TRUE,
      localDependencies)

\* Object.keys({...dependencies, ...devDependencies, ...peerDependencies}):
\* the keys in first-insertion order.
RECURSIVE KeysInOrder(_, _)
KeysInOrder(entries, seen) ==
  IF entries = <<>> THEN <<>>
  ELSE IF Head(entries).name \in seen THEN KeysInOrder(Tail(entries), seen)
  ELSE <<Head(entries).name>> \o KeysInOrder(Tail(entries), seen \cup {Head(entries).name})

\* The same, looking at devDependencies only.
findLocalDependencies_devOnly(disk, pkg, packageNames) ==
  LET pkgJson == disk[pkg.path]
      InBatch(depName) == depName \in packageNames
  IN SelectSeq(KeysInOrder(pkgJson.devDependencies, {}), InBatch)

\* The same, recording every key of the merged maps.
findLocalDependencies_everyKey(disk, pkg, packageNames) ==
  LET pkgJson == disk[pkg.path]
      allDeps == pkgJson.dependencies \o pkgJson.devDependencies \o pkgJson.peerDependencies
  IN KeysInOrder(allDeps, {})

findLocalDependencies(disk, pkg, packageNames) ==
  LET pkgJson == disk[pkg.path]
      allDeps == pkgJson.dependencies \o pkgJson.devDependencies \o pkgJson.peerDependencies
      InBatch(depName) == depName \in packageNames
  IN SelectSeq(KeysInOrder(allDeps, {}), InBatch)

\* The same, falling back to packages/ when the declared patterns match
\* nothing, and to the root package when packages/ yields no package.
discoverPackages_firstNonEmpty(ws) ==
  IF ~HasManifest(ws.disk, Root) THEN [threw |-> TRUE, packages |-> <<>>]
  ELSE
    LET rootPackageJson == ws.disk[Root]
        workspacePatterns == getWorkspacePatterns(rootPackageJson)
        IsDir(e) == e.isDirectory
        dirs == SelectSeq(ws.listing, IsDir)
        matched == globAll(ws, workspacePatterns)
        packageDirs ==
          IF Len(matched) > 0 THEN matched
          ELSE [i \in 1..Len(dirs) |-> PackagesPath(dirs[i].name)]
        Loads(dir) == HasManifest(ws.disk, dir)
        loaded == SelectSeq(packageDirs, Loads)
        packages == [i \in 1..Len(loaded) |->
                       packageFromPath(loaded[i], ws.disk[loaded[i]], <<>>)]
        packageNames == {packages[i].name : i \in 1..Len(packages)}
    IN IF Len(packages) = 0
       THEN [threw |-> FALSE,
             packages |-> IF ~rootPackageJson.private
                          THEN <<packageFromPath(Root, rootPackageJson, <<>>)>>
                          ELSE <<>>]
       ELSE [threw |-> FALSE,
             packages |-> [i \in 1..Len(packages) |->
                [packages[i] EXCEPT !.localDependencies =
                   findLocalDependencies(ws.disk, packages[i], packageNames)]]]

\* The result of discoverPackages: [threw, packages].
discoverPackages(ws) ==
  IF ~HasManifest(ws.disk, Root) THEN [threw |-> TRUE, packages |-> <<>>]
  ELSE
    LET rootPackageJson == ws.disk[Root]
        workspacePatterns == getWorkspacePatterns(rootPackageJson)
        IsDir(e) == e.isDirectory
        dirs == SelectSeq(ws.listing, IsDir)
        packageDirs ==
          IF Len(workspacePatterns) > 0 THEN globAll(ws, workspacePatterns)
          ELSE [i \in 1..Len(dirs) |-> PackagesPath(dirs[i].name)]
        Loads(dir) == HasManifest(ws.disk, dir)
        loaded == SelectSeq(packageDirs, Loads)
        packages == [i \in 1..Len(loaded) |->
                       packageFromPath(loaded[i], ws.disk[loaded[i]], <<>>)]
        packageNames == {packages[i].name : i \in 1..Len(packages)}
    IN IF Len(workspacePatterns) = 0 /\ ws.listing = NoDir
       THEN [threw |-> FALSE,
             packages |-> IF ~rootPackageJson.private
                          THEN <<packageFromPath(Root, rootPackageJson, <<>>)>>
                          ELSE <<>>]
       ELSE [threw |-> FALSE,
             packages |-> [i \in 1..Len(packages) |->
                [packages[i] EXCEPT !.localDependencies =
                   findLocalDependencies(ws.disk, packages[i], packageNames)]]]

(***************************************************************************)
(* prompts.ts: confirm, select                                             *)
(*                                                                         *)
(* An answer is the line the operator typed, as prompt() returns it.       *)
(***************************************************************************)

ToLowerCase(s) == [i \in 1..Len(s) |-> IF s[i] = "Y" THEN "y" ELSE s[i]]

\* answer.trim() of prompt(): leading and trailing blanks dropped.
RECURSIVE Trim(_)
Trim(s) ==
  IF s = <<>> THEN s
  ELSE IF Head(s) = " " THEN Trim(Tail(s))
  ELSE IF s[Len(s)] = " " THEN Trim(SubSeq(s, 1, Len(s) - 1))
  ELSE s

\* Number.parseInt(answer, 10) on digits and non-numeric characters: the
\* value of the leading digits, NaN when there are none.
parseInt(s) ==
  LET n == CHOOSE k \in 0..Len(s) :
             /\ \A i \in 1..k : IsDigit(s[i])
             /\ k < Len(s) => ~IsDigit(s[k + 1])
  IN IF n = 0 THEN NaN ELSE Num(ParseDigits(SubSeq(s, 1, n)))

\* The same, answering "no" to an empty line.
confirm_defaultNo(line, defaultYes) ==
  LET answer == Trim(line)
  IN answer # <<>> /\ ToLowerCase(answer) = <<"y">>

\* confirm(message, defaultYes) on the typed line.
confirm(line, defaultYes) ==
  LET answer == Trim(line)
  IN IF answer = <<>> THEN defaultYes ELSE ToLowerCase(answer) = <<"y">>

\* select(message, options, defaultIndex) on the typed line; options is the
\* sequence of the option values.
select(options, defaultIndex, line) ==
  LET answer == Trim(line)
      parsed == parseInt(answer)
      index == parsed.v - 1
  IN IF answer = <<>> THEN options[defaultIndex + 1]
     ELSE IF parsed.k = "num" /\ index >= 0 /\ index < Len(options)
     THEN options[index + 1]
     ELSE options[defaultIndex + 1]

(***************************************************************************)
(* prompts.ts: multiSelect                                                 *)
(*                                                                         *)
(* The prompt is [selected, cursor, listening, resolved, exited]: selected *)
(* and cursor are the closure's variables, with the 0-based indices of the *)
(* code; listening says that onKeypress is attached to stdin; resolved is  *)
(* the sequence of the values resolve() was called with; exited says that  *)
(* process.exit(0) was called.  A key is the string of one data event.     *)
(***************************************************************************)

CtrlC == "\\x03"
ArrowUp == "\\x1b[A"
ArrowDown == "\\x1b[B"

\* new Set(allSelectedByDefault ? options.map((_, i) => i) : []), cursor = 0
multiSelect(options, allSelectedByDefault) ==
  [selected |-> IF allSelectedByDefault THEN 0..(Len(options) - 1) ELSE {},
   cursor |-> 0, listening |-> TRUE, resolved |-> <<>>, exited |-> FALSE]

\* options.filter((_, i) => selected.has(i)).map((o) => o.value)
SelectedValues(options, selected) ==
  LET IsSelected(i) == (i - 1) \in selected
      kept == SelectSeq([i \in 1..Len(options) |-> i], IsSelected)
  IN [k \in 1..Len(kept) |-> options[kept[k]]]

\* The same, stopping at the first option instead of wrapping.
cursorUp_noWrap(cursor, n) == IF cursor > 0 THEN cursor - 1 ELSE 0

\* cursor > 0 ? cursor - 1 : options.length - 1
cursorUp(cursor, n) == IF cursor > 0 THEN cursor - 1 ELSE n - 1

\* cursor < options.length - 1 ? cursor + 1 : 0
cursorDown(cursor, n) == IF cursor < n - 1 THEN cursor + 1 ELSE 0

\* The same, leaving the listener attached after Enter.
onEnter_keepListening(prompt, options) ==
  [prompt EXCEPT !.resolved = Append(@, SelectedValues(options, prompt.selected))]

\* The Enter branch: the listener is removed, the promise resolved.
onEnter(prompt, options) ==
  [prompt EXCEPT !.listening = FALSE,
                 !.resolved = Append(@, SelectedValues(options, prompt.selected))]

\* onKeypress(key), with str = key.toString()
onKeypress(prompt, options, str) ==
  CASE str = CtrlC -> [prompt EXCEPT !.listening = FALSE, !.exited = TRUE]
    [] str \in {"\\r", "\\n"} -> onEnter(prompt, options)
    [] str = " " ->
         [prompt EXCEPT !.selected = IF prompt.cursor \in @ THEN @ \ {prompt.cursor}
                                     ELSE @ \cup {prompt.cursor}]
    [] str \in {ArrowUp, "k"} ->
         [prompt EXCEPT !.cursor = cursorUp(@, Len(options))]
    [] str \in {ArrowDown, "j"} ->
         [prompt EXCEPT !.cursor = cursorDown(@, Len(options))]
    [] str = "a" -> [prompt EXCEPT !.selected = 0..(Len(options) - 1)]
    [] str = "n" -> [prompt EXCEPT !.selected = {}]
    [] OTHER -> prompt


(***************************************************************************)
(* publish.ts: runBuild, verifyBuild, publishPackage, createGitTag,        *)
(* pushGitTag; and hasUncommittedChanges, commitVersionBump.               *)
(*                                                                         *)
(* These act on the run record r: r.files is the set of files on disk      *)
(* (as <<directory, file>>), r.git the repository, r.published the         *)
(* registry, r.log the sequence of external commands, file writes and      *)
(* prompts of the run. An external command's exit status is an input.      *)
(***************************************************************************)

Ev(op, name, ver, args, ok) ==
  [op |-> op, name |-> name, ver |-> ver, args |-> args, ok |-> ok]

Log(r, e) == [r EXCEPT !.log = Append(@, e)]

\* run(command, args, cwd) of a git, build or publish command.
Exec(r, op, name, ver, args, ok) == Log(r, Ev(op, name, ver, args, ok))

TagName(version) == <<"v">> \o version

\* hasUncommittedChanges(cwd): git status --porcelain.
hasUncommittedChanges(r) ==
  [w |-> Exec(r, "status", "", <<>>, <<>>, TRUE), hasChanges |-> r.git.dirty]

\* commitVersionBump(version, cwd, dryRun): commits the manifests as
\* "chore: release v<version>"; nothing is run in a dry run.
commitVersionBump(r, version, dryRun, ok) ==
  IF dryRun THEN [w |-> r, success |-> TRUE]
  ELSE LET ran == Exec(Exec(r, "add", "", <<>>, <<>>, TRUE),
                       "commit", "", TagName(version), <<>>, ok)
       IN [w |-> IF ok
                 THEN [ran EXCEPT !.git.commits = Append(@, TagName(version)),
                                  !.git.dirty = FALSE]
                 ELSE ran,
           success |-> ok]

\* The same, running the build in a dry run too.
runBuild_ignoreDryRun(r, dryRun, ok, built) ==
  [w |-> Exec([r EXCEPT !.files = @ \cup built], "build", "", <<>>, <<>>, ok),
   success |-> ok]

\* runBuild(cwd, dryRun); built is the set of files the build leaves on disk.
runBuild(r, dryRun, ok, built) ==
  IF dryRun THEN [w |-> r, success |-> TRUE]
  ELSE [w |-> Exec([r EXCEPT !.files = @ \cup built], "build", "", <<>>, <<>>, ok),
        success |-> ok]

DefaultEntry == <<".", "dist", "index.js">>

\* The files verifyBuild collects from a manifest; a file is the sequence of
\* its path segments.
filesToCheck(packageJson) ==
  LET declared ==
        (IF packageJson.main # <<>> THEN <<packageJson.main>> ELSE <<>>)
          \o packageJson.bin
          \o (IF packageJson.exports # <<>> THEN <<packageJson.exports>> ELSE <<>>)
  IN IF Len(declared) = 0 THEN <<DefaultEntry>> ELSE declared

\* join(pkg.path, file): "." segments vanish.
JoinFile(dir, file) ==
  LET NotDot(seg) == seg # "."
  IN <<dir, SelectSeq(file, NotDot)>>

\* verifyBuild(pkg): does every collected file exist?
verifyBuild(r, pkg) ==
  LET files == filesToCheck(r.fs.disk[pkg.path])
  IN [success |-> \A i \in 1..Len(files) : JoinFile(pkg.path, files[i]) \in r.files]

\* The same, running the publish command in a dry run too.
publishPackage_ignoreDryRun(r, pkg, registry, otp, dryRun, ok) ==
  LET ran == Exec(r, "publish", pkg.name, pkg.version, <<registry, otp>>, ok)
  IN [w |-> IF ok THEN [ran EXCEPT !.published = Append(@, <<pkg.name, pkg.version>>)]
            ELSE ran,
      success |-> ok]

\* publishPackage(pkg, registry, otp, dryRun)
publishPackage(r, pkg, registry, otp, dryRun, ok) ==
  IF dryRun THEN [w |-> r, success |-> TRUE]
  ELSE LET ran == Exec(r, "publish", pkg.name, pkg.version, <<registry, otp>>, ok)
       IN [w |-> IF ok
                 THEN [ran EXCEPT !.published = Append(@, <<pkg.name, pkg.version>>)]
                 ELSE ran,
           success |-> ok]

\* The same, naming the tag <version> instead of v<version>.
createGitTag_bareVersion(r, version, dryRun, other, ok) ==
  IF dryRun THEN [w |-> r, success |-> TRUE]
  ELSE LET tagged == Exec(Exec(r, "status", "", <<>>, <<>>, TRUE),
                          "tag", "", version, <<>>, ok)
       IN [w |-> IF ok THEN [tagged EXCEPT !.git.tags = Append(@, version)] ELSE tagged,
           success |-> ok]

\* createGitTag(version, cwd, dryRun); other: the tree holds changes the run
\* did not write itself (build output, say). The results of add and commit
\* are not looked at.
createGitTag(r, version, dryRun, other, ok) ==
  IF dryRun THEN [w |-> r, success |-> TRUE]
  ELSE LET status == Exec(r, "status", "", <<>>, <<>>, TRUE)
           committed ==
             IF r.git.dirty \/ other
             THEN [Exec(Exec(status, "add", "", <<>>, <<>>, TRUE),
                        "commit", "", TagName(version), <<>>, TRUE)
                     EXCEPT !.git.commits = Append(@, TagName(version)),
                            !.git.dirty = FALSE]
             ELSE status
           tagged == Exec(committed, "tag", "", TagName(version), <<>>, ok)
       IN [w |-> IF ok THEN [tagged EXCEPT !.git.tags = Append(@, TagName(version))]
                 ELSE tagged,
           success |-> ok]

\* pushGitTag(version, cwd, dryRun)
pushGitTag(r, version, dryRun, ok) ==
  IF dryRun THEN [w |-> r, success |-> TRUE]
  ELSE LET ran == Exec(r, "push", "", TagName(version), <<>>, ok)
       IN [w |-> IF ok THEN [ran EXCEPT !.git.pushed = Append(@, TagName(version))]
                 ELSE ran,
           success |-> ok]

(***************************************************************************)
(* cli.ts: main                                                            *)
(*                                                                         *)
(* One execution of main() is the record r; r.pc is the await point it is  *)
(* at. Each operator below is the code from one await point to the next;   *)
(* r.running holds the publish commands started and not yet exited. The    *)
(* input `in` of a step is what the environment supplies there: the line   *)
(* typed at a prompt (answer), the keys of the multi-select (pick, with ok *)
(* false for Ctrl+C), a command's exit status (ok), the files a build      *)
(* leaves (pick), and whether the tree holds changes of others (other).    *)
(***************************************************************************)

REGISTRIES == [npm |-> "https://registry.npmjs.org", github |-> "https://npm.pkg.github.com"]

S_patch == <<"p", "a", "t", "c", "h">>
S_minor == <<"m", "i", "n", "o", "r">>
S_major == <<"m", "a", "j", "o", "r">>

\* const bumpTypes = ['patch', 'minor', 'major']
bumpTypes == <<S_patch, S_minor, S_major>>

isBumpType(version) == \E i \in 1..Len(bumpTypes) : bumpTypes[i] = version

\* options.version as VersionBumpType
AsBumpType(version) ==
  CASE version = S_patch -> "patch"
    [] version = S_minor -> "minor"
    [] OTHER -> "major"

In(answer, ok, pick, other) == [answer |-> answer, ok |-> ok, pick |-> pick, other |-> other]

Stage(r, name) == [r EXCEPT !.stages = Append(@, name)]

\* A yes/no or multi-select prompt and its outcome.
Prompted(r, kind, result) == Log(r, Ev("prompt", kind, <<>>, <<>>, result))

\* A select prompt and the option it resolved with.
Chose(r, kind, value) == Log(r, Ev("prompt", kind, <<>>, value, TRUE))

\* The multi-select prompt, the set of options selected when it resolved, and
\* whether it resolved (Enter) or the process was interrupted (Ctrl+C).
Picked(r, kind, pick, ok) == Log(r, Ev("prompt", kind, <<>>, pick, ok))

closePrompt(r) == [r EXCEPT !.promptOpen = FALSE]

\* process.exit(code)
Exit(r, code) == [r EXCEPT !.pc = "exited", !.exitCode = code]

Goto(r, pc) == [r EXCEPT !.pc = pc]

\* The same, without the CI mode validation.
Main_start_unvalidated(r, in) ==
  IF r.opts.help THEN Exit(r, 0) ELSE Goto(r, "preflight")

\* Lines 454-488: help, CI mode validation.
Main_start(r, in) ==
  IF r.opts.help THEN Exit(r, 0)
  ELSE IF r.opts.ci /\ r.opts.version = <<>> THEN Exit(r, 1)
  ELSE Goto(r, "preflight")

\* The same, without --yes.
skipConfirms_ciOnly(r) == r.opts.ci

skipConfirms(r) == r.opts.skipConfirms \/ r.opts.ci
\* The same, never skipping the choice prompts.
skipAllPrompts_never(r) == FALSE

skipAllPrompts(r) == r.opts.ci

\* The same, aborting on uncommitted changes in a dry run too.
Main_preflight_ignoreDryRun(r, in) ==
  LET uncommitted == hasUncommittedChanges(Stage(r, "Preflight"))
  IN IF uncommitted.hasChanges
     THEN Exit(closePrompt(uncommitted.w), 1)
     ELSE Goto(uncommitted.w, "discover")

\* Lines 490-505: the uncommitted-changes check.
Main_preflight(r, in) ==
  LET uncommitted == hasUncommittedChanges(Stage(r, "Preflight"))
  IN IF uncommitted.hasChanges /\ ~r.opts.dryRun
     THEN Exit(closePrompt(uncommitted.w), 1)
     ELSE Goto(uncommitted.w, "discover")

\* Lines 560-570, and the branch of lines 573 and 610 that follows them.
VersionStage(r) ==
  LET currentVersion == r.packages[1].version
      entered == [Stage(r, "Version") EXCEPT !.currentVersion = currentVersion,
                                             !.newVersion = currentVersion]
  IN IF r.opts.version # <<>> THEN Goto(entered, "versionFlag")
     ELSE IF ~skipConfirms(r) THEN Goto(entered, "confirmBump")
     ELSE Goto(entered, "registry")

\* The same as Main_discover, taking a failed discovery for an empty one
\* that ends the run cleanly.
Main_discover_swallow(r, in) ==
  LET found == discoverPackages([disk |-> r.fs.disk, listing |-> r.listing])
      NotPrivate(p) == ~p.isPrivate
      publishablePackages == SelectSeq(found.packages, NotPrivate)
      sorted == [Stage(Stage(r, "Discovery"), "Ordering")
                   EXCEPT !.packages = sortByDependencyOrder(publishablePackages)]
  IN IF found.threw THEN Exit(closePrompt(Stage(r, "Discovery")), 0)
     ELSE IF Len(publishablePackages) = 0 THEN Exit(Stage(r, "Discovery"), 1)
     ELSE IF Len(sorted.packages) > 1 /\ ~skipAllPrompts(r) THEN Goto(sorted, "select")
     ELSE VersionStage(sorted)

\* The same as Main_discover, without the filter on private packages.
Main_discover_keepPrivate(r, in) ==
  LET found == discoverPackages([disk |-> r.fs.disk, listing |-> r.listing])
      publishablePackages == found.packages
      sorted == [Stage(Stage(r, "Discovery"), "Ordering")
                   EXCEPT !.packages = sortByDependencyOrder(publishablePackages)]
  IN IF found.threw THEN Exit(closePrompt(Stage(r, "Discovery")), 1)
     ELSE IF Len(publishablePackages) = 0 THEN Exit(Stage(r, "Discovery"), 1)
     ELSE IF Len(sorted.packages) > 1 /\ ~skipAllPrompts(r) THEN Goto(sorted, "select")
     ELSE VersionStage(sorted)

\* The same as Main_discover, publishing in discovery order.
Main_discover_unsorted(r, in) ==
  LET found == discoverPackages([disk |-> r.fs.disk, listing |-> r.listing])
      NotPrivate(p) == ~p.isPrivate
      publishablePackages == SelectSeq(found.packages, NotPrivate)
      sorted == [Stage(Stage(r, "Discovery"), "Ordering")
                   EXCEPT !.packages = publishablePackages]
  IN IF found.threw THEN Exit(closePrompt(Stage(r, "Discovery")), 1)
     ELSE IF Len(publishablePackages) = 0 THEN Exit(Stage(r, "Discovery"), 1)
     ELSE IF Len(sorted.packages) > 1 /\ ~skipAllPrompts(r) THEN Goto(sorted, "select")
     ELSE VersionStage(sorted)

\* Lines 507-541: discovery, the private filter, the sort. A throw of
\* discoverPackages ends in main().catch (lines 823-827).
Main_discover(r, in) ==
  LET found == discoverPackages([disk |-> r.fs.disk, listing |-> r.listing])
      NotPrivate(p) == ~p.isPrivate
      publishablePackages == SelectSeq(found.packages, NotPrivate)
      sorted == [Stage(Stage(r, "Discovery"), "Ordering")
                   EXCEPT !.packages = sortByDependencyOrder(publishablePackages)]
  IN IF found.threw THEN Exit(closePrompt(Stage(r, "Discovery")), 1)
     ELSE IF Len(publishablePackages) = 0 THEN Exit(Stage(r, "Discovery"), 1)
     ELSE IF Len(sorted.packages) > 1 /\ ~skipAllPrompts(r) THEN Goto(sorted, "select")
     ELSE VersionStage(sorted)

\* The same as Main_select, treating an empty selection as a failure.
Main_select_exitOne(r, in) ==
  LET shown == Picked(Stage(r, "Selection"), "multiSelect", in.pick, in.ok)
      Chosen(i) == i \in in.pick
      indices == SelectSeq([i \in 1..Len(r.packages) |-> i], Chosen)
      selectedPackages == [k \in 1..Len(indices) |-> r.packages[indices[k]]]
  IN IF ~in.ok THEN Exit(shown, 0)
     ELSE IF Len(selectedPackages) = 0 THEN Exit(closePrompt(shown), 1)
     ELSE VersionStage([shown EXCEPT !.packages = sortByDependencyOrder(selectedPackages)])

\* Lines 541-558: the package selection. multiSelect resolves with the
\* selected options in option order, or exits the process on Ctrl+C.
Main_select(r, in) ==
  LET shown == Picked(Stage(r, "Selection"), "multiSelect", in.pick, in.ok)
      Chosen(i) == i \in in.pick
      indices == SelectSeq([i \in 1..Len(r.packages) |-> i], Chosen)
      selectedPackages == [k \in 1..Len(indices) |-> r.packages[indices[k]]]
  IN IF ~in.ok THEN Exit(shown, 0)
     ELSE IF Len(selectedPackages) = 0 THEN Exit(closePrompt(shown), 0)
     ELSE VersionStage([shown EXCEPT !.packages = sortByDependencyOrder(selectedPackages)])

RECURSIVE updatePackageVersions(_, _, _, _, _)
\* for (const pkg of packages) await updatePackageVersion(pkg, newVersion, dryRun)
updatePackageVersions(fs, packages, i, newVersion, dryRun) ==
  IF i > Len(packages) THEN fs
  ELSE updatePackageVersions(updatePackageVersion(fs, packages[i], newVersion, dryRun),
                             packages, i + 1, newVersion, dryRun)

\* Lines 586-599 and 635-648: the version writes, the dependency rewrite, the
\* in-memory versions.
ApplyVersion(r, newVersion) ==
  LET versioned == updatePackageVersions(r.fs, r.packages, 1, newVersion, r.opts.dryRun)
      fs == updateLocalDependencyVersions(versioned, r.packages, newVersion, r.opts.dryRun)
      written == SubSeq(fs.writes, Len(r.fs.writes) + 1, Len(fs.writes))
  IN [r EXCEPT !.newVersion = newVersion,
               !.fs = fs,
               !.git.dirty = @ \/ fs.disk # r.fs.disk,
               !.log = @ \o [k \in 1..Len(written) |->
                               Ev("write", "", <<>>, written[k], TRUE)],
               !.packages = [k \in 1..Len(r.packages) |->
                               [r.packages[k] EXCEPT !.version = newVersion]]]

\* Lines 573-599: the version given by --version.
Main_versionFlag(r, in) ==
  LET newVersion ==
        IF isBumpType(r.opts.version)
        THEN bumpVersion(r.currentVersion, AsBumpType(r.opts.version))
        ELSE r.opts.version
  IN Goto(ApplyVersion(r, newVersion), "commit")

\* Line 611: "Bump version before publishing?"
Main_confirmBump(r, in) ==
  LET shouldBump == confirm(in.answer, TRUE)
      asked == Prompted(r, "confirm:bump", shouldBump)
  IN IF shouldBump THEN Goto(asked, "selectBump") ELSE Goto(asked, "registry")

\* Lines 614-648: "Select version bump type:"
Main_selectBump(r, in) ==
  LET bumpType == select(<<"patch", "minor", "major">>, 0, in.answer)
      asked == Chose(r, "select:bump", bumpType)
  IN Goto(ApplyVersion(asked, bumpVersion(r.currentVersion, bumpType)), "commit")

\* The same, going on when the commit failed.
Main_commit_ignoreFailure(r, in) ==
  Goto(commitVersionBump(r, r.newVersion, r.opts.dryRun, in.ok).w, "registry")

\* Lines 601-607 and 650-656: the commit of the version bump.
Main_commit(r, in) ==
  LET commitResult == commitVersionBump(r, r.newVersion, r.opts.dryRun, in.ok)
  IN IF ~commitResult.success THEN Exit(closePrompt(commitResult.w), 1)
     ELSE Goto(commitResult.w, "registry")

\* The same, without the fallback to the public registry.
Main_registry_noFallback(r, in) ==
  LET asks == r.opts.registry = "" /\ ~skipAllPrompts(r)
      registry == IF asks
                  THEN select(<<REGISTRIES.npm, REGISTRIES.github>>, 0, in.answer)
                  ELSE r.opts.registry
      entered == Stage(r, "Registry")
      resolved == [(IF asks THEN Chose(entered, "select:registry", registry) ELSE entered)
                     EXCEPT !.registry = registry]
  IN IF ~r.opts.skipBuild THEN Goto(resolved, "build") ELSE Goto(resolved, "publishIntro")

\* Lines 662-685: the registry, then whether to build.
Main_registry(r, in) ==
  LET asks == r.opts.registry = "" /\ ~skipAllPrompts(r)
      chosen == IF asks
                THEN select(<<REGISTRIES.npm, REGISTRIES.github>>, 0, in.answer)
                ELSE r.opts.registry
      registry == IF chosen = "" THEN REGISTRIES.npm ELSE chosen
      entered == Stage(r, "Registry")
      resolved == [(IF asks THEN Chose(entered, "select:registry", chosen) ELSE entered)
                     EXCEPT !.registry = registry]
  IN IF ~r.opts.skipBuild THEN Goto(resolved, "build") ELSE Goto(resolved, "publishIntro")

RECURSIVE allBuildsVerified(_, _)
\* The loop of lines 701-710, from package i on.
allBuildsVerified(r, i) ==
  IF i > Len(r.packages) THEN TRUE
  ELSE verifyBuild(r, r.packages[i]).success /\ allBuildsVerified(r, i + 1)

\* The same, running the build a second time when the first run failed.
Main_build_retry(r, in) ==
  LET buildResult == runBuild(Stage(r, "Build"), r.opts.dryRun, in.ok, in.pick)
      again == runBuild(buildResult.w, r.opts.dryRun, TRUE, in.pick)
      built == IF buildResult.success THEN buildResult ELSE again
  IN IF ~allBuildsVerified(built.w, 1) THEN Exit(closePrompt(built.w), 1)
     ELSE Goto(built.w, "publishIntro")

\* The same, going on to publish whatever the verification found.
Main_build_unverified(r, in) ==
  LET buildResult == runBuild(Stage(r, "Build"), r.opts.dryRun, in.ok, in.pick)
  IN IF ~buildResult.success THEN Exit(closePrompt(buildResult.w), 1)
     ELSE Goto(buildResult.w, "publishIntro")

\* The same, writing the old version back when the build or the verification
\* failed.
Main_build_rollback(r, in) ==
  LET buildResult == runBuild(Stage(r, "Build"), r.opts.dryRun, in.ok, in.pick)
      failed == ~buildResult.success \/ ~allBuildsVerified(buildResult.w, 1)
      undone == [buildResult.w EXCEPT
                   !.fs = updatePackageVersions(@, r.packages, 1, r.currentVersion,
                                                r.opts.dryRun)]
  IN IF failed THEN Exit(closePrompt(undone), 1)
     ELSE Goto(buildResult.w, "publishIntro")

\* The same, leaving out the verification in a dry run.
Main_build_dryUnverified(r, in) ==
  LET buildResult == runBuild(Stage(r, "Build"), r.opts.dryRun, in.ok, in.pick)
  IN IF ~buildResult.success THEN Exit(closePrompt(buildResult.w), 1)
     ELSE IF ~r.opts.dryRun /\ ~allBuildsVerified(buildResult.w, 1)
     THEN Exit(closePrompt(buildResult.w), 1)
     ELSE Goto(buildResult.w, "publishIntro")

\* Lines 685-721: the build and the verification of every package.
Main_build(r, in) ==
  LET buildResult == runBuild(Stage(r, "Build"), r.opts.dryRun, in.ok, in.pick)
  IN IF ~buildResult.success THEN Exit(closePrompt(buildResult.w), 1)
     ELSE IF ~allBuildsVerified(buildResult.w, 1) THEN Exit(closePrompt(buildResult.w), 1)
     ELSE Goto(buildResult.w, "publishIntro")

\* The same, without the test of --dry-run around the tagging step.
TagStage_ignoreDryRun(r) ==
  IF r.opts.ci THEN Goto(r, "createTag")
  ELSE IF ~skipConfirms(r) THEN Goto(r, "confirmTag")
  ELSE Goto(r, "done")

\* Lines 780-817, up to the first await: where the run goes once publishing
\* is over.
TagStage(r) ==
  IF r.opts.dryRun THEN Goto(r, "done")
  ELSE IF r.opts.ci THEN Goto(r, "createTag")
  ELSE IF ~skipConfirms(r) THEN Goto(r, "confirmTag")
  ELSE Goto(r, "done")

\* The same, treating "no" at "Continue?" as a failure.
Main_publishIntro_declineFatal(r, in) ==
  LET entered == Stage(r, "Publish")
      shouldContinue == confirm(in.answer, TRUE)
      asked == Prompted(entered, "confirm:continue", shouldContinue)
  IN IF r.opts.dryRun THEN TagStage(entered)
     ELSE IF ~skipConfirms(r)
     THEN (IF ~shouldContinue THEN Exit(closePrompt(asked), 1)
           ELSE [Goto(asked, "publish") EXCEPT !.i = 1])
     ELSE [Goto(entered, "publish") EXCEPT !.i = 1]

\* Lines 723-759: the announcement and "Continue?".
Main_publishIntro(r, in) ==
  LET entered == Stage(r, "Publish")
      shouldContinue == confirm(in.answer, TRUE)
      asked == Prompted(entered, "confirm:continue", shouldContinue)
  IN IF r.opts.dryRun THEN TagStage(entered)
     ELSE IF ~skipConfirms(r)
     THEN (IF ~shouldContinue THEN Exit(closePrompt(asked), 0)
           ELSE [Goto(asked, "publish") EXCEPT !.i = 1])
     ELSE [Goto(entered, "publish") EXCEPT !.i = 1]

\* The same, going on with the next package after a failed publish.
Main_publish_keepGoing(r, in) ==
  LET result == publishPackage([r EXCEPT !.running = <<>>], r.packages[r.i],
                               r.registry, r.opts.otp, r.opts.dryRun, in.ok)
  IN IF r.i < Len(r.packages) THEN [Goto(result.w, "publish") EXCEPT !.i = r.i + 1]
     ELSE TagStage(result.w)

\* The same as Main_publishStart, starting the publish command of every
\* remaining package at once.
Main_publishStart_parallel(r, in) ==
  [Goto(r, "publishing") EXCEPT
     !.running = @ \o [k \in 1..(Len(r.packages) + 1 - r.i) |->
                         r.packages[r.i + k - 1].name]]

\* Line 762, up to the spawn of run(): the publish command of package i is
\* started, and main awaits its exit.
Main_publishStart(r, in) ==
  [Goto(r, "publishing") EXCEPT !.running = Append(@, r.packages[r.i].name)]

\* Lines 761-770: the publish command of package i has exited; the rest of
\* this turn of the publish loop.
Main_publish(r, in) ==
  LET result == publishPackage([r EXCEPT !.running = <<>>], r.packages[r.i],
                               r.registry, r.opts.otp, r.opts.dryRun, in.ok)
  IN IF ~result.success THEN Exit(closePrompt(result.w), 1)
     ELSE IF r.i < Len(r.packages) THEN [Goto(result.w, "publish") EXCEPT !.i = r.i + 1]
     ELSE TagStage(result.w)

\* Line 796: "Create a git tag for v<version>?"
Main_confirmTag(r, in) ==
  LET shouldTag == confirm(in.answer, TRUE)
      asked == Prompted(r, "confirm:tag", shouldTag)
  IN IF shouldTag THEN Goto(asked, "createTag") ELSE Goto(asked, "done")

\* The same, pushing the tag whether or not it was created.
Main_createTag_pushAlways(r, in) ==
  LET tagResult == createGitTag(Stage(r, "Tag"), r.newVersion, r.opts.dryRun,
                                in.other, in.ok)
  IN IF r.opts.ci THEN Goto(tagResult.w, "pushTag")
     ELSE Goto(tagResult.w, "confirmPush")

\* The same, treating a failed tag creation as fatal.
Main_createTag_fatal(r, in) ==
  LET tagResult == createGitTag(Stage(r, "Tag"), r.newVersion, r.opts.dryRun,
                                in.other, in.ok)
  IN IF ~tagResult.success THEN Exit(closePrompt(tagResult.w), 1)
     ELSE IF r.opts.ci THEN Goto(tagResult.w, "pushTag")
     ELSE Goto(tagResult.w, "confirmPush")

\* Lines 786-793 and 800-813: createGitTag and what follows it.
Main_createTag(r, in) ==
  LET tagResult == createGitTag(Stage(r, "Tag"), r.newVersion, r.opts.dryRun,
                                in.other, in.ok)
  IN IF ~tagResult.success THEN Goto(tagResult.w, "done")
     ELSE IF r.opts.ci THEN Goto(tagResult.w, "pushTag")
     ELSE Goto(tagResult.w, "confirmPush")

\* Line 803: "Push tag to origin?"
Main_confirmPush(r, in) ==
  LET shouldPush == confirm(in.answer, TRUE)
      asked == Prompted(r, "confirm:push", shouldPush)
  IN IF shouldPush THEN Goto(asked, "pushTag") ELSE Goto(asked, "done")

\* Lines 790 and 805: pushGitTag.
Main_pushTag(r, in) ==
  Goto(pushGitTag(Stage(r, "Push"), r.newVersion, r.opts.dryRun, in.ok).w, "done")

\* The same, never returning.
Main_done_stay(r, in) == r

\* Lines 819-821: "Done!", and main returns.
Main_done(r, in) == Exit(closePrompt(Stage(r, "Done")), 0)

\* main() from the await point r is at to the next one.
Main(r, in) ==
  CASE r.pc = "start" -> Main_start(r, in)
    [] r.pc = "preflight" -> Main_preflight(r, in)
    [] r.pc = "discover" -> Main_discover(r, in)
    [] r.pc = "select" -> Main_select(r, in)
    [] r.pc = "versionFlag" -> Main_versionFlag(r, in)
    [] r.pc = "confirmBump" -> Main_confirmBump(r, in)
    [] r.pc = "selectBump" -> Main_selectBump(r, in)
    [] r.pc = "commit" -> Main_commit(r, in)
    [] r.pc = "registry" -> Main_registry(r, in)
    [] r.pc = "build" -> Main_build(r, in)
    [] r.pc = "publishIntro" -> Main_publishIntro(r, in)
    [] r.pc = "publish" -> Main_publishStart(r, in)
    [] r.pc = "publishing" -> Main_publish(r, in)
    [] r.pc = "confirmTag" -> Main_confirmTag(r, in)
    [] r.pc = "createTag" -> Main_createTag(r, in)
    [] r.pc = "confirmPush" -> Main_confirmPush(r, in)
    [] r.pc = "pushTag" -> Main_pushTag(r, in)
    [] r.pc = "done" -> Main_done(r, in)

(***************************************************************************)
(* Function specifications: Init draws the arguments, the action applies   *)
(* the function.                                                           *)
(***************************************************************************)

NoCall == [fn |-> "none"]
NoRet == [done |-> FALSE]
NoRun == [pc |-> "idle"]

Idle == run = NoRun /\ twin = NoRun

\* Largest version component drawn for bumpVersion.
MaxNum == 11

Triple(x, y, z) == NatToStr(x) \o <<".">> \o NatToStr(y) \o <<".">> \o NatToStr(z)

\* Well-formed X.Y.Z versions, and a few shapes the program does not validate.
WellFormedVersions == {Triple(x, y, z) : x, y, z \in 0..MaxNum}

OddVersions ==
  { <<>>, <<"1">>, <<"1", ".", "2">>, <<"1", ".", "2", ".", "b">>,
    <<"1", ".", "2", ".", "3", ".", "4">>, <<"0", "1", ".", "2", ".", "3">>,
    <<"b", ".", "2", ".", "3">>, <<"1", ".", ".", "3">> }

InitBump ==
  /\ call \in [fn : {"bumpVersion"}, version : WellFormedVersions \cup OddVersions,
               type : VersionBumpType]
  /\ ret = NoRet
  /\ Idle

Call_bumpVersion ==
  /\ call.fn = "bumpVersion"
  /\ ~ret.done
  /\ ret' = [done |-> TRUE, value |-> bumpVersion(call.version, call.type)]
  /\ UNCHANGED <<call, run, twin>>

SpecBump == InitBump /\ [][Call_bumpVersion]_vars

\* The version X.Y.Z the call was made with, when it is one.
IsTripleCall(x, y, z) == call.fn = "bumpVersion" /\ call.version = Triple(x, y, z)

\* C6: bumpVersion on X.Y.Z of non-negative integers returns (X+1).0.0 for
\* major, X.(Y+1).0 for minor, X.Y.(Z+1) for patch and the input unchanged for
\* none; 1.2.3 gives 2.0.0, 1.3.0, 1.2.4 and 1.2.3.
C6_BumpArithmetic ==
  (call.fn = "bumpVersion" /\ ret.done) =>
    /\ \A x, y, z \in 0..(MaxNum + 1) :
         IsTripleCall(x, y, z) =>
           ret.value = CASE call.type = "major" -> Triple(x + 1, 0, 0)
                         [] call.type = "minor" -> Triple(x, y + 1, 0)
                         [] call.type = "patch" -> Triple(x, y, z + 1)
                         [] OTHER -> call.version
    /\ (call.version = <<"1", ".", "2", ".", "3">>) =>
         ret.value = CASE call.type = "major" -> <<"2", ".", "0", ".", "0">>
                       [] call.type = "minor" -> <<"1", ".", "3", ".", "0">>
                       [] call.type = "patch" -> <<"1", ".", "2", ".", "4">>
                       [] OTHER -> <<"1", ".", "2", ".", "3">>

\* A minor bump across a decimal carry has been computed.
C6_Witness ==
  /\ call.fn = "bumpVersion" /\ ret.done
  /\ call.version = <<"1", ".", "9", ".", "3">> /\ call.type = "minor"
  /\ ret.value = <<"1", ".", "1", "0", ".", "0">>

(***************************************************************************)
(* sortByDependencyOrder on bounded inputs                                 *)
(***************************************************************************)

\* Longest localDependencies list drawn for a package of a sort input.
MaxDeps == 2

\* Names of the packages of a sort input; "x" names a package that is never
\* part of the input.
SortNames == {"a", "b", "c"}
AbsentName == "x"

\* Sequences of distinct elements of S, of length at most n.
RECURSIVE DistinctSeqs(_, _)
DistinctSeqs(S, n) ==
  IF n = 0 THEN {<<>>}
  ELSE LET shorter == DistinctSeqs(S, n - 1)
           longest == {q \in shorter : Len(q) = n - 1}
       IN shorter \cup
          UNION { {Append(q, e) : e \in S \ {q[i] : i \in 1..Len(q)}} : q \in longest }

V100 == <<"1", ".", "0", ".", "0">>

SortPkg(name, deps) == Pkg(name, V100, name, FALSE, deps)

DepLists == DistinctSeqs(SortNames \cup {AbsentName}, MaxDeps)

\* Every order of every subset of SortNames.
NameOrders == DistinctSeqs(SortNames, Cardinality(SortNames))

\* The packages called names, in that order, with the dependency lists deps.
SortInput(names, deps) == [i \in 1..Len(names) |-> SortPkg(names[i], deps[i])]

\* The diamond: A depends on B and C, B and C depend on D; in every input
\* order and with A's dependencies in either order.
DiamondDeps(name, flip) ==
  CASE name = "A" -> IF flip THEN <<"C", "B">> ELSE <<"B", "C">>
    [] name = "D" -> <<>>
    [] OTHER -> <<"D">>

DiamondInputs ==
  { [i \in 1..4 |-> SortPkg(names[i], DiamondDeps(names[i], flip))] :
    names \in {q \in DistinctSeqs({"A", "B", "C", "D"}, 4) : Len(q) = 4},
    flip \in BOOLEAN }

\* Every list of distinctly named packages over SortNames, in every order,
\* each with any dependency list (self, cyclic and absent names included);
\* and the diamonds.
InitSort ==
  /\ \/ \E names \in NameOrders :
          \E deps \in [1..Len(names) -> DepLists] :
            call = [fn |-> "sortByDependencyOrder", packages |-> SortInput(names, deps)]
     \/ \E packages \in DiamondInputs :
          call = [fn |-> "sortByDependencyOrder", packages |-> packages]
  /\ ret = NoRet
  /\ Idle

Call_sortByDependencyOrder ==
  /\ call.fn = "sortByDependencyOrder"
  /\ ~ret.done
  /\ ret' = [done |-> TRUE, value |-> sortByDependencyOrder(call.packages)]
  /\ UNCHANGED <<call, run, twin>>

SpecSort == InitSort /\ [][Call_sortByDependencyOrder]_vars

\* --- vocabulary of the ordering claims ---

NamesOf(packages) == {packages[i].name : i \in 1..Len(packages)}

DistinctNames(packages) ==
  \A i, j \in 1..Len(packages) : packages[i].name = packages[j].name => i = j

\* Position of the package called name in a list of distinctly named packages.
PosOf(packages, name) == CHOOSE i \in 1..Len(packages) : packages[i].name = name

\* The dependencies of packages[i] that are present in the list.
PresentDeps(packages, i) ==
  {packages[i].localDependencies[k] : k \in 1..Len(packages[i].localDependencies)}
    \cap NamesOf(packages)

\* Names reachable from name through one or more present dependencies.
RECURSIVE ReachFrom(_, _, _)
ReachFrom(packages, frontier, seen) ==
  LET next == UNION {PresentDeps(packages, PosOf(packages, n)) : n \in frontier}
      new == next \ seen
  IN IF new = {} THEN seen ELSE ReachFrom(packages, new, seen \cup new)

DependsOn(packages, p, q) == q \in ReachFrom(packages, {p}, {})

Acyclic(packages) == \A n \in NamesOf(packages) : ~DependsOn(packages, n, n)

\* Every package of sorted comes after each of its dependencies present in it.
DepsFirst(sorted) ==
  \A i \in 1..Len(sorted) :
    \A d \in PresentDeps(sorted, i) :
      \E j \in 1..(i - 1) : sorted[j].name = d

IsDiamond(packages) == packages \in DiamondInputs

SortDone == call.fn = "sortByDependencyOrder" /\ ret.done

\* C1: on distinctly named packages with an acyclic local-dependency graph
\* (dependencies absent from the input ignored), the output has every package
\* after each of its present dependencies; for the diamond D is first and A
\* is last, whatever the input order.
C1_TopologicalOrder ==
  (SortDone /\ DistinctNames(call.packages) /\ Acyclic(call.packages)) =>
    /\ NamesOf(ret.value) = NamesOf(call.packages)
    /\ DepsFirst(ret.value)
    /\ IsDiamond(call.packages) =>
         ret.value[1].name = "D" /\ ret.value[4].name = "A"

\* The diamond was sorted from an input that lists A first and D last.
C1_Witness ==
  /\ SortDone /\ IsDiamond(call.packages)
  /\ call.packages[1].name = "A" /\ call.packages[4].name = "D"
  /\ ret.value[1].name = "D" /\ ret.value[4].name = "A"

\* C3: on distinctly named packages, cycles, self-dependencies and absent
\* dependencies included, the call returns and its output is a permutation of
\* the input.
C3_Permutation ==
  (SortDone /\ DistinctNames(call.packages)) =>
    /\ Len(ret.value) = Len(call.packages)
    /\ \A i \in 1..Len(call.packages) :
         Cardinality({j \in 1..Len(ret.value) : ret.value[j] = call.packages[i]}) = 1
    /\ \A j \in 1..Len(ret.value) :
         \E i \in 1..Len(call.packages) : call.packages[i] = ret.value[j]

\* A two-package cycle with a self-dependency and an absent dependency was
\* sorted.
C3_Witness ==
  /\ SortDone
  /\ Len(call.packages) = 2
  /\ call.packages[1].localDependencies = <<call.packages[2].name, call.packages[1].name>>
  /\ call.packages[2].localDependencies = <<call.packages[1].name, AbsentName>>
  /\ Len(ret.value) = 2

Unrelated(packages, p, q) ==
  p # q /\ ~DependsOn(packages, p, q) /\ ~DependsOn(packages, q, p)

\* C4 as stated: two packages with no dependency relation between them keep
\* their input order in the output.
C4_StableAsStated ==
  (SortDone /\ DistinctNames(call.packages)) =>
    \A i, j \in 1..Len(call.packages) :
      (i < j /\ Unrelated(call.packages, call.packages[i].name, call.packages[j].name))
        => PosOf(ret.value, call.packages[i].name) < PosOf(ret.value, call.packages[j].name)

\* C4 amended: two packages with no dependency relation keep their input
\* order unless the later one is a direct or transitive dependency of a
\* package that precedes the earlier one in the input.
C4_StableAmended ==
  (SortDone /\ DistinctNames(call.packages)) =>
    \A i, j \in 1..Len(call.packages) :
      ( /\ i < j
        /\ Unrelated(call.packages, call.packages[i].name, call.packages[j].name)
        /\ \A k \in 1..(i - 1) :
             ~DependsOn(call.packages, call.packages[k].name, call.packages[j].name) )
        => PosOf(ret.value, call.packages[i].name) < PosOf(ret.value, call.packages[j].name)

\* Three packages were sorted where the first depends on the third and the
\* second is unrelated to both: the second and third keep their order only
\* by the amended rule's exception not applying to them.
C4_Witness ==
  /\ SortDone
  /\ Len(call.packages) = 3
  /\ call.packages[2].localDependencies = <<call.packages[3].name>>
  /\ call.packages[1].localDependencies = <<>>
  /\ call.packages[3].localDependencies = <<>>
  /\ ret.value[1] = call.packages[1]
  /\ ret.value[2] = call.packages[3]

(***************************************************************************)
(* updateLocalDependencyVersions on bounded inputs                         *)
(***************************************************************************)

\* Longest "dependencies" map drawn for the first package.
MaxMapLen == 1

V200 == <<"2", ".", "0", ".", "0">>

\* Old specifiers: caret, tilde, exact, and two with neither prefix.
SpecPool ==
  { <<"^">> \o V100, <<"~">> \o V100, V100, <<"*">>, <<">", "=">> \o V100 }

\* Keys of the drawn maps: the two packages of the call, a package that is on
\* disk but not in the call's set, and a registry package.
DepKeys == {"a", "b", "c", "ext"}

Entries == [name : DepKeys, spec : SpecPool]

\* Maps with distinct keys, of at most n entries.
DepMaps(n) ==
  {m \in UNION {[1..k -> Entries] : k \in 0..n} :
     \A i, j \in 1..Len(m) : m[i].name = m[j].name => i = j}

\* The package sets the function is called with; "c" is never in the set.
DepsPackageSets ==
  { <<SortPkg("b", <<>>), SortPkg("a", <<>>)>>,
    <<SortPkg("a", <<>>)>> }

\* The versions the function is called with: main passes an explicit
\* --version as typed, so one of them begins with a range prefix.
DepsNewVersions == {V200, V100, <<"^">> \o V200}

InitDeps ==
  /\ \E packages \in DepsPackageSets, newVersion \in DepsNewVersions, dryRun \in BOOLEAN :
       \E da \in DepMaps(MaxMapLen), dv \in DepMaps(1), dp \in DepMaps(1) :
         \E eb \in {<<[name |-> "a", spec |-> <<"~">> \o V100]>>,
                    <<[name |-> "ext", spec |-> <<"^">> \o V100]>>} :
           call = [fn |-> "updateLocalDependencyVersions",
                   packages |-> packages, newVersion |-> newVersion, dryRun |-> dryRun,
                   fs |-> [writes |-> <<>>,
                           disk |-> [d \in {"a", "b", "c"} |->
                             CASE d = "a" -> Manifest("a", V100, FALSE, da, dv, dp)
                               [] d = "b" -> Manifest("b", V100, FALSE, <<>>, <<>>, eb)
                               [] OTHER -> Manifest("c", V100, FALSE,
                                     <<[name |-> "a", spec |-> <<"^">> \o V100]>>,
                                     <<>>, <<>>)]]]
  /\ ret = NoRet
  /\ Idle

Call_updateLocalDependencyVersions ==
  /\ call.fn = "updateLocalDependencyVersions"
  /\ ~ret.done
  /\ ret' = [done |-> TRUE,
             value |-> updateLocalDependencyVersions(call.fs, call.packages,
                                                     call.newVersion, call.dryRun)]
  /\ UNCHANGED <<call, run, twin>>

SpecDeps == InitDeps /\ [][Call_updateLocalDependencyVersions]_vars

\* What the claim says an entry keyed by a package of the set becomes.
PrefixKept(old, newVersion) ==
  CASE Len(old) > 0 /\ old[1] = "^" -> <<"^">> \o newVersion
    [] Len(old) > 0 /\ old[1] = "~" -> <<"~">> \o newVersion
    [] OTHER -> newVersion

\* C7: a non-dry-run updateLocalDependencyVersions rewrites, in each of the
\* three maps of every package of the set, each entry keyed by a package of the
\* set to newVersion with the old prefix style (^ stays ^, ~ stays ~, anything
\* else gets no prefix), and leaves entries keyed by any other name unchanged.
C7_PrefixPreserved ==
  (call.fn = "updateLocalDependencyVersions" /\ ret.done /\ ~call.dryRun) =>
    \A p \in 1..Len(call.packages) :
      \A t \in 1..Len(depTypes) :
        LET dir == call.packages[p].path
            old == call.fs.disk[dir][depTypes[t]]
            new == ret.value.disk[dir][depTypes[t]]
        IN /\ Len(new) = Len(old)
           /\ \A i \in 1..Len(old) :
                /\ new[i].name = old[i].name
                /\ new[i].spec =
                     IF old[i].name \in NamesOf(call.packages)
                     THEN PrefixKept(old[i].spec, call.newVersion)
                     ELSE old[i].spec

\* One call rewrote a ~ entry to ~2.0.0 and left an entry keyed by a package
\* outside the set alone.
C7_Witness ==
  /\ call.fn = "updateLocalDependencyVersions" /\ ret.done /\ ~call.dryRun
  /\ call.newVersion = V200
  /\ call.fs.disk["a"].dependencies = <<[name |-> "b", spec |-> <<"~">> \o V100]>>
  /\ ret.value.disk["a"].dependencies = <<[name |-> "b", spec |-> <<"~">> \o V200]>>
  /\ call.fs.disk["a"].devDependencies = <<[name |-> "c", spec |-> <<"^">> \o V100]>>
  /\ ret.value.disk["a"].devDependencies = call.fs.disk["a"].devDependencies


(***************************************************************************)
(* The pipeline specification: Init draws a workspace, the flags, the      *)
(* state of the working tree and the artifacts already on disk; each       *)
(* action is main() from one await point to the next.                      *)
(***************************************************************************)

V090 == <<"0", ".", "9", ".", "0">>
V110 == <<"1", ".", "1", ".", "0">>

Dep(name, spec) == [name |-> name, spec |-> spec]

Caret(v) == <<"^">> \o v
Tilde(v) == <<"~">> \o v

RootManifest(private, workspaces) ==
  [Manifest("root", V100, private, <<>>, <<>>, <<>>) EXCEPT !.workspaces = workspaces]

Dir(name) == [name |-> name, isDirectory |-> TRUE]
File(name) == [name |-> name, isDirectory |-> FALSE]

\* packages/core and packages/cli, cli depending on core; no workspaces field.
CoreCliDisk ==
  (Root :> RootManifest(TRUE, <<>>))
    @@ (PackagesPath("core") :> Manifest("core", V100, FALSE, <<>>, <<>>, <<>>))
    @@ (PackagesPath("cli") :>
          Manifest("cli", V100, FALSE, <<Dep("core", Caret(V100))>>, <<>>, <<>>))

\* Three packages and one dependency edge, found through workspaces; two
\* directories of packages/ are not packages.
ThreeDisk ==
  (Root :> RootManifest(TRUE, <<"packages/*", "apps/*">>))
    @@ (PackagesPath("a") :>
          Manifest("a", V100, FALSE, <<Dep("b", Tilde(V100))>>, <<>>, <<>>))
    @@ (PackagesPath("b") :> Manifest("b", V100, FALSE, <<>>, <<>>, <<>>))
    @@ (PackagesPath("c") :>
          [Manifest("c", V100, FALSE, <<Dep("ext", Caret(V200))>>, <<>>, <<>>)
             EXCEPT !.main = <<".", "lib", "c.js">>])

\* A chain app -> lib -> core with every dependency map in use, versions
\* that differ, a private package and declared artifacts.
ChainDisk ==
  (Root :> RootManifest(TRUE, <<>>))
    @@ (PackagesPath("app") :>
          [Manifest("app", V100, FALSE, <<Dep("lib", V090), Dep("ext", Caret(V100))>>,
                    <<Dep("priv", Caret(V100))>>, <<Dep("core", Tilde(V100))>>)
             EXCEPT !.bin = << <<"bin", "app.js">> >>])
    @@ (PackagesPath("lib") :>
          [Manifest("lib", V090, FALSE, <<>>, <<Dep("core", Caret(V100))>>, <<>>)
             EXCEPT !.exports = <<".", "dist", "lib.js">>])
    @@ (PackagesPath("core") :> Manifest("core", V100, FALSE, <<>>, <<>>, <<>>))
    @@ (PackagesPath("priv") :>
          Manifest("priv", V100, TRUE, <<Dep("core", Caret(V100))>>, <<>>, <<>>))

\* Two packages that depend on each other.
CycleDisk ==
  (Root :> RootManifest(TRUE, <<>>))
    @@ (PackagesPath("a") :>
          Manifest("a", V100, FALSE, <<Dep("b", Caret(V100))>>, <<>>, <<>>))
    @@ (PackagesPath("b") :>
          Manifest("b", V100, FALSE, <<>>, <<>>, <<Dep("a", Caret(V100))>>))

\* Two packages, both private.
PrivateDisk ==
  (Root :> RootManifest(TRUE, <<>>))
    @@ (PackagesPath("p") :> Manifest("p", V100, TRUE, <<>>, <<>>, <<>>))
    @@ (PackagesPath("q") :>
          Manifest("q", V100, TRUE, <<Dep("p", Caret(V100))>>, <<>>, <<>>))

\* A repository that is one package.
SingleDisk(private) ==
  (Root :> [Manifest("solo", V100, private, <<Dep("ext", Caret(V100))>>, <<>>, <<>>)
              EXCEPT !.main = <<"index.js">>])

Workspace(disk, listing) == [disk |-> disk, listing |-> listing]

Workspaces ==
  { Workspace(CoreCliDisk, <<Dir("core"), Dir("cli")>>),
    Workspace(CoreCliDisk, <<Dir("cli"), Dir("core")>>),
    Workspace(ThreeDisk, <<Dir("a"), File("README.md"), Dir("tmp"), Dir("b"), Dir("c")>>),
    Workspace(ChainDisk, <<Dir("app"), Dir("priv"), Dir("lib"), Dir("core")>>),
    Workspace(CycleDisk, <<Dir("a"), Dir("b")>>),
    Workspace(PrivateDisk, <<Dir("p"), Dir("q")>>),
    Workspace(SingleDisk(FALSE), NoDir),
    Workspace(SingleDisk(TRUE), NoDir),
    Workspace(<<>>, <<Dir("a")>>) }

\* The artifacts the manifests of a workspace declare.
Artifacts(disk) ==
  UNION { {JoinFile(dir, filesToCheck(disk[dir])[i]) :
             i \in 1..Len(filesToCheck(disk[dir]))} : dir \in DOMAIN disk }

\* The same, without the artifacts of the last directory of packages/.
AllButLast(ws) ==
  LET last == PackagesPath(ws.listing[Len(ws.listing)].name)
  IN {f \in Artifacts(ws.disk) : f[1] # last}

\* PublishOptions, as parseArgs fills them in.
PublishOptions(dryRun, registry, otp, skipBuild, yes, ci, version, help) ==
  [dryRun |-> dryRun, registry |-> registry, otp |-> otp, skipBuild |-> skipBuild,
   skipConfirms |-> yes, ci |-> ci, version |-> version, help |-> help]

VersionFlags == {<<>>, S_patch, S_minor, V200}

\* The state of main() on entry.
NewRun(ws, opts, dirty, files) ==
  [pc |-> "start", exitCode |-> -1, opts |-> opts,
   fs |-> [disk |-> ws.disk, writes |-> <<>>], listing |-> ws.listing,
   files |-> files,
   git |-> [dirty |-> dirty, commits |-> <<>>, tags |-> <<>>, pushed |-> <<>>],
   published |-> <<>>, log |-> <<>>, stages |-> <<>>, promptOpen |-> TRUE,
   packages |-> <<>>, currentVersion |-> <<>>, newVersion |-> <<>>,
   registry |-> "", i |-> 0, running |-> <<>>]

\* Lines typed at a yes/no prompt, and at a numbered choice.
ConfirmAnswers == {<<>>, <<"y">>, <<"Y">>, <<"n">>, <<"y", "e", "s">>, <<" ", "y", " ">>}
SelectAnswers == {<<>>, <<"1">>, <<"2">>, <<"3">>, <<"0">>, <<"4">>, <<"b">>, <<"2", "x">>}

NoIn == In(<<>>, TRUE, {}, FALSE)

Typed(answers) == {In(a, TRUE, {}, FALSE) : a \in answers}
Exited(oks) == {In(<<>>, ok, {}, FALSE) : ok \in oks}

\* What the environment may supply at the await point r is at.
Inputs(r) ==
  CASE r.pc = "select" ->
         {In(<<>>, TRUE, pick, FALSE) : pick \in SUBSET (1..Len(r.packages))}
           \cup {In(<<>>, FALSE, {}, FALSE)}
    [] r.pc \in {"confirmBump", "confirmTag", "confirmPush"} -> Typed(ConfirmAnswers)
    [] r.pc = "publishIntro" ->
         IF r.opts.dryRun \/ skipConfirms(r) THEN {NoIn} ELSE Typed(ConfirmAnswers)
    [] r.pc = "selectBump" -> Typed(SelectAnswers)
    [] r.pc = "registry" ->
         IF r.opts.registry = "" /\ ~skipAllPrompts(r) THEN Typed(SelectAnswers) ELSE {NoIn}
    [] r.pc \in {"commit", "publishing", "pushTag"} ->
         IF r.opts.dryRun THEN {NoIn} ELSE Exited(BOOLEAN)
    [] r.pc = "build" ->
         IF r.opts.dryRun THEN {NoIn}
         ELSE {In(<<>>, ok, built, FALSE) :
                 ok \in BOOLEAN, built \in {{}, Artifacts(r.fs.disk)}}
    [] r.pc = "createTag" -> {In(<<>>, ok, {}, other) : ok, other \in BOOLEAN}
    [] OTHER -> {NoIn}



\* The flags drawn: every combination of --dry-run, --skip-build, --yes, --ci
\* and --version, --registry going with --otp; and --help.
OptionSets ==
  { PublishOptions(dryRun, reg[1], reg[2], skipBuild, yes, ci, version, FALSE) :
      dryRun \in BOOLEAN, skipBuild \in BOOLEAN, yes \in BOOLEAN, ci \in BOOLEAN,
      version \in VersionFlags,
      reg \in {<<"", "">>, <<REGISTRIES.github, "123456">>} }
    \cup {PublishOptions(FALSE, "", "", FALSE, FALSE, FALSE, <<>>, TRUE)}

Init ==
  /\ call = NoCall
  /\ ret = NoRet
  /\ twin = NoRun
  /\ \E ws \in Workspaces :
       \E opts \in OptionSets :
         \E dirty \in BOOLEAN :
           \E files \in {{}, Artifacts(ws.disk), AllButLast(ws)} :
             run = NewRun(ws, opts, dirty, files)

\* The run is at await point pc.
AtPc(pc) == run # NoRun /\ twin = NoRun /\ run.pc = pc

Start ==
  /\ AtPc("start")
  /\ \E in \in Inputs(run) : run' = Main_start(run, in)
  /\ UNCHANGED <<call, ret, twin>>

Preflight ==
  /\ AtPc("preflight")
  /\ \E in \in Inputs(run) : run' = Main_preflight(run, in)
  /\ UNCHANGED <<call, ret, twin>>

Discover ==
  /\ AtPc("discover")
  /\ \E in \in Inputs(run) : run' = Main_discover(run, in)
  /\ UNCHANGED <<call, ret, twin>>

Select ==
  /\ AtPc("select")
  /\ \E in \in Inputs(run) : run' = Main_select(run, in)
  /\ UNCHANGED <<call, ret, twin>>

VersionFlag ==
  /\ AtPc("versionFlag")
  /\ \E in \in Inputs(run) : run' = Main_versionFlag(run, in)
  /\ UNCHANGED <<call, ret, twin>>

ConfirmBump ==
  /\ AtPc("confirmBump")
  /\ \E in \in Inputs(run) : run' = Main_confirmBump(run, in)
  /\ UNCHANGED <<call, ret, twin>>

SelectBump ==
  /\ AtPc("selectBump")
  /\ \E in \in Inputs(run) : run' = Main_selectBump(run, in)
  /\ UNCHANGED <<call, ret, twin>>

Commit ==
  /\ AtPc("commit")
  /\ \E in \in Inputs(run) : run' = Main_commit(run, in)
  /\ UNCHANGED <<call, ret, twin>>

Registry ==
  /\ AtPc("registry")
  /\ \E in \in Inputs(run) : run' = Main_registry(run, in)
  /\ UNCHANGED <<call, ret, twin>>

Build ==
  /\ AtPc("build")
  /\ \E in \in Inputs(run) : run' = Main_build(run, in)
  /\ UNCHANGED <<call, ret, twin>>

PublishIntro ==
  /\ AtPc("publishIntro")
  /\ \E in \in Inputs(run) : run' = Main_publishIntro(run, in)
  /\ UNCHANGED <<call, ret, twin>>

Publish ==
  /\ AtPc("publish")
  /\ \E in \in Inputs(run) : run' = Main_publishStart(run, in)
  /\ UNCHANGED <<call, ret, twin>>

Published ==
  /\ AtPc("publishing")
  /\ \E in \in Inputs(run) : run' = Main_publish(run, in)
  /\ UNCHANGED <<call, ret, twin>>

ConfirmTag ==
  /\ AtPc("confirmTag")
  /\ \E in \in Inputs(run) : run' = Main_confirmTag(run, in)
  /\ UNCHANGED <<call, ret, twin>>

CreateTag ==
  /\ AtPc("createTag")
  /\ \E in \in Inputs(run) : run' = Main_createTag(run, in)
  /\ UNCHANGED <<call, ret, twin>>

ConfirmPush ==
  /\ AtPc("confirmPush")
  /\ \E in \in Inputs(run) : run' = Main_confirmPush(run, in)
  /\ UNCHANGED <<call, ret, twin>>

PushTag ==
  /\ AtPc("pushTag")
  /\ \E in \in Inputs(run) : run' = Main_pushTag(run, in)
  /\ UNCHANGED <<call, ret, twin>>

Done ==
  /\ AtPc("done")
  /\ \E in \in Inputs(run) : run' = Main_done(run, in)
  /\ UNCHANGED <<call, ret, twin>>

Next ==
  \/ Start \/ Preflight \/ Discover \/ Select
  \/ VersionFlag \/ ConfirmBump \/ SelectBump \/ Commit
  \/ Registry \/ Build \/ PublishIntro \/ Publish \/ Published
  \/ ConfirmTag \/ CreateTag \/ ConfirmPush \/ PushTag \/ Done

Spec == Init /\ [][Next]_vars



(***************************************************************************)
(* Claims about the pipeline.                                              *)
(***************************************************************************)

InStages(r, name) == \E k \in 1..Len(r.stages) : r.stages[k] = name

\* The events of the run's log with the given op.
EventsOf(r, op) == {k \in 1..Len(r.log) : r.log[k].op = op}

PromptAnswered(r, kind, result) ==
  \E k \in EventsOf(r, "prompt") : r.log[k].name = kind /\ r.log[k].ok = result

\* The packages of the publish set that packages[i] lists as local dependencies.
LocalDepsInSet(packages, i) == PresentDeps(packages, i)

\* C2: in a non-dry-run run over an acyclic publish set, whenever the publish
\* command is invoked for a package, the publish command of every package of
\* the publish set it lists as a local dependency was invoked before and
\* succeeded; so too after the operator narrowed the set.
C2_PublishAfterDependencies ==
  (~run.opts.dryRun /\ Acyclic(run.packages)) =>
    \A k \in EventsOf(run, "publish") :
      \A d \in LocalDepsInSet(run.packages, PosOf(run.packages, run.log[k].name)) :
        \E j \in 1..(k - 1) :
          /\ run.log[j].op = "publish"
          /\ run.log[j].name = d
          /\ run.log[j].ok

\* A run in which the operator narrowed a three-package chain to two packages,
\* one depending on the other, and both were published.
C2_Witness ==
  /\ run.pc = "exited"
  /\ ~run.opts.dryRun
  /\ PromptAnswered(run, "multiSelect", TRUE)
  /\ NamesOf(run.packages) = {"core", "app"}
  /\ Len(run.published) = 2

VersionDecided(r) ==
  /\ InStages(r, "Version")
  /\ r.pc \notin {"versionFlag", "confirmBump", "selectBump"}
  /\ \/ r.opts.version # <<>>
     \/ \E k \in EventsOf(r, "prompt") : r.log[k].name = "select:bump"

SpecifierIs(spec, version) == spec \in {version, Caret(version), Tilde(version)}

\* C5: once the Version stage of a non-dry-run run has applied a bump kind or
\* an explicit version, every package of the publish set carries newVersion in
\* its manifest and in memory, and every specifier of those manifests that
\* names a package of the publish set is newVersion behind at most a ^ or ~.
C5_VersionConsistent ==
  (~run.opts.dryRun /\ VersionDecided(run)) =>
    \A i \in 1..Len(run.packages) :
      LET pkg == run.packages[i]
          packageJson == run.fs.disk[pkg.path]
          allDeps == packageJson.dependencies \o packageJson.devDependencies
                       \o packageJson.peerDependencies
      IN /\ pkg.version = run.newVersion
         /\ packageJson.version = run.newVersion
         /\ \A k \in 1..Len(allDeps) :
              allDeps[k].name \in NamesOf(run.packages)
                => SpecifierIs(allDeps[k].spec, run.newVersion)

\* The chain, all three packages, after the version was applied: lib came
\* from another version, and app's "~" and exact specifiers were rewritten.
C5_Witness ==
  /\ run.pc = "commit"
  /\ ~run.opts.dryRun
  /\ NamesOf(run.packages) = {"core", "lib", "app"}
  /\ run.newVersion = V110
  /\ run.fs.disk[PackagesPath("lib")].version = V110
  /\ run.fs.disk[PackagesPath("app")].peerDependencies = <<Dep("core", Tilde(V110))>>
  /\ run.fs.disk[PackagesPath("app")].dependencies[1] = Dep("lib", V110)

MutatingOps == {"write", "add", "commit", "tag", "push", "publish"}

\* C8: in a run with --dry-run, whatever the other flags and the answers, no
\* manifest is written, no commit is made, no tag is created or pushed, and
\* the publish command is never invoked.
C8_DryRunMutatesNothing ==
  run.opts.dryRun =>
    /\ run.fs.writes = <<>>
    /\ run.git.commits = <<>>
    /\ run.git.tags = <<>>
    /\ run.git.pushed = <<>>
    /\ run.published = <<>>
    /\ \A k \in 1..Len(run.log) : run.log[k].op \notin MutatingOps

\* --dry-run --ci --version patch over the three-package workspace with one
\* dependency edge, run to its end.
C8_Witness ==
  /\ run.pc = "exited"
  /\ run.exitCode = 0
  /\ run.opts.dryRun /\ run.opts.ci /\ run.opts.version = S_patch
  /\ NamesOf(run.packages) = {"a", "b", "c"}
  /\ InStages(run, "Publish")
  /\ InStages(run, "Done")



\* The scenario of C10: the core/cli workspace, in either listing order, a
\* run with bump kind minor that has ended with both packages published.
IsCoreCli(r) == DOMAIN r.fs.disk = DOMAIN CoreCliDisk /\ r.currentVersion = V100

BumpKindMinor(r) ==
  \/ r.opts.version = S_minor
  \/ \E k \in EventsOf(r, "prompt") :
       r.log[k].name = "select:bump" /\ r.log[k].args = "minor"

CoreCliPublished(r) ==
  /\ IsCoreCli(r)
  /\ BumpKindMinor(r)
  /\ r.pc = "exited"
  /\ \A k \in EventsOf(r, "build") : r.log[k].ok
  /\ \A k \in EventsOf(r, "publish") : r.log[k].ok
  /\ {r.log[k].name : k \in EventsOf(r, "publish")} = {"core", "cli"}

CoreCliManifests(r) ==
  /\ r.fs.disk[PackagesPath("core")].version = V110
  /\ r.fs.disk[PackagesPath("cli")].version = V110
  /\ r.fs.disk[PackagesPath("cli")].dependencies = <<Dep("core", Caret(V110))>>

CoreBeforeCli(r) ==
  \E j, k \in EventsOf(r, "publish") :
    j < k /\ r.log[j].name = "core" /\ r.log[k].name = "cli"

TagCreated(r, version) == \E k \in 1..Len(r.git.tags) : r.git.tags[k] = TagName(version)

\* The tag was asked for (CI mode, or the operator said yes to the tag
\* prompt) and the tag command succeeded.
TagMade(r, version) ==
  /\ r.opts.ci \/ PromptAnswered(r, "confirm:tag", TRUE)
  /\ \E k \in EventsOf(r, "tag") : r.log[k].ver = TagName(version) /\ r.log[k].ok

InitPair ==
  /\ call = NoCall
  /\ ret = NoRet
  /\ \E ws \in Workspaces :
       \E opts \in OptionSets :
         \E dirty \in BOOLEAN :
           \E files \in {{}, Artifacts(ws.disk)} :
             /\ ~opts.dryRun
             /\ run = NewRun(ws, opts, dirty, files)
             /\ twin = NewRun(ws, [opts EXCEPT !.dryRun = TRUE], dirty, files)

Paired == run # NoRun /\ twin # NoRun

Both ==
  /\ Paired
  /\ run.pc = twin.pc
  /\ run.pc # "exited"
  /\ \E in \in Inputs(run) : run' = Main(run, in) /\ twin' = Main(twin, in)
  /\ UNCHANGED <<call, ret>>

RealAlone ==
  /\ Paired
  /\ run.pc # twin.pc
  /\ run.pc # "exited"
  /\ \E in \in Inputs(run) : run' = Main(run, in)
  /\ UNCHANGED <<call, ret, twin>>

DryAlone ==
  /\ Paired
  /\ run.pc # twin.pc
  /\ twin.pc # "exited"
  /\ \E in \in Inputs(twin) : twin' = Main(twin, in)
  /\ UNCHANGED <<call, ret, run>>

NextPair == Both \/ RealAlone \/ DryAlone

SpecPair == InitPair /\ [][NextPair]_vars

IsPrefix(a, b) == Len(a) <= Len(b) /\ SubSeq(b, 1, Len(a)) = a

PrefixComparable(a, b) == IsPrefix(a, b) \/ IsPrefix(b, a)

\* The stages of a run other than Tag and Push.
StagesBeforeTag(r) ==
  LET NotTagging(stage) == stage \notin {"Tag", "Push"}
  IN SelectSeq(r.stages, NotTagging)

\* The decisions of a run: its prompts and what they resolved with, the
\* prompts only a real run has ("Continue?", tag, push) left out.
Decisions(r) ==
  LET Shared(e) ==
        e.op = "prompt" /\ e.name \notin {"confirm:continue", "confirm:tag", "confirm:push"}
  IN SelectSeq(r.log, Shared)

BothEnded == Paired /\ run.pc = "exited" /\ twin.pc = "exited"

\* C9 as stated: for the same workspace, other flags and answers, the dry run
\* visits the same sequence of stages as the real run.
C9_SameStagesAsStated == BothEnded => twin.stages = run.stages

\* C9, amended: the dry run never visits Tag or Push; its stages and the real
\* run's stages other than Tag and Push are one a prefix of the other, and
\* equal when both runs reach Done; and the prompts both runs have are
\* resolved the same way.
C9_SameStagesAmended ==
  /\ ~InStages(twin, "Tag")
  /\ ~InStages(twin, "Push")
  /\ PrefixComparable(StagesBeforeTag(run), twin.stages)
  /\ PrefixComparable(Decisions(run), Decisions(twin))
  /\ (InStages(run, "Done") /\ InStages(twin, "Done"))
       => twin.stages = StagesBeforeTag(run)

\* Both runs at their end, having gone through Selection and a version bump;
\* the real run tagged and pushed.
C9_Witness ==
  /\ BothEnded
  /\ InStages(run, "Selection") /\ InStages(run, "Build")
  /\ InStages(run, "Tag") /\ InStages(run, "Push") /\ InStages(run, "Done")
  /\ InStages(twin, "Done")
  /\ PromptAnswered(twin, "confirm:bump", TRUE)
  /\ twin.stages # run.stages



(***************************************************************************)
(* Claims about aborts and prompts.                                        *)
(***************************************************************************)

NoTagging(r) ==
  /\ r.git.tags = <<>>
  /\ r.git.pushed = <<>>
  /\ EventsOf(r, "tag") = {}
  /\ EventsOf(r, "push") = {}

\* The packages the registry holds are those of the successful publish
\* commands of the run, in their order.
PublishedAreKept(r) ==
  LET Succeeded(e) == e.op = "publish" /\ e.ok
      done == SelectSeq(r.log, Succeeded)
  IN r.published = [k \in 1..Len(done) |-> <<done[k].name, done[k].ver>>]

\* C11: once the publish command has failed for a package, no publish command
\* follows it, the run has exited with code 1, no tag is created or pushed,
\* and the packages published before it stay published.
C11_PublishFailureHalts ==
  \A k \in EventsOf(run, "publish") :
    ~run.log[k].ok =>
      /\ \A j \in EventsOf(run, "publish") : j <= k
      /\ run.pc = "exited"
      /\ run.exitCode = 1
      /\ NoTagging(run)
      /\ PublishedAreKept(run)

\* The chain: core and lib published, then the publish of app failed.
C11_Witness ==
  /\ run.pc = "exited"
  /\ Len(run.published) = 2
  /\ \E k \in EventsOf(run, "publish") : run.log[k].name = "app" /\ ~run.log[k].ok

\* The build stage of r found the build command failing or an artifact of
\* some package of the publish set missing.
BuildBroken(r) ==
  /\ InStages(r, "Build")
  /\ \/ \E k \in EventsOf(r, "build") : ~r.log[k].ok
     \/ \E i \in 1..Len(r.packages) : ~verifyBuild(r, r.packages[i]).success

\* C12: when the build is not skipped and the build command fails or a
\* package lacks a declared artifact, the run has exited with code 1 and no
\* publish command was invoked.
C12_BuildFailureAborts ==
  (~run.opts.skipBuild /\ BuildBroken(run)) =>
    /\ run.pc = "exited"
    /\ run.exitCode = 1
    /\ EventsOf(run, "publish") = {}
    /\ run.published = <<>>

\* A real run whose build command succeeded and left no artifact behind.
C12_Witness ==
  /\ run.pc = "exited"
  /\ ~run.opts.dryRun
  /\ \E k \in EventsOf(run, "build") : run.log[k].ok
  /\ \E i \in 1..Len(run.packages) : ~verifyBuild(run, run.packages[i]).success
  /\ Len(run.packages) > 1

CiWithoutVersion(r) == r.opts.ci /\ r.opts.version = <<>> /\ ~r.opts.help

\* C13: with --ci and no --version (and no --help) the run exits with code 1
\* before any stage: no command was executed, no file written, no prompt
\* presented.
C13_CiRequiresVersion ==
  (CiWithoutVersion(run) /\ run.pc # "start") =>
    /\ run.pc = "exited"
    /\ run.exitCode = 1
    /\ run.stages = <<>>
    /\ run.log = <<>>
    /\ run.fs.writes = <<>>

\* --ci without --version on a clean tree with packages to publish, exited.
C13_Witness ==
  /\ CiWithoutVersion(run)
  /\ run.pc = "exited"
  /\ ~run.git.dirty
  /\ DOMAIN run.fs.disk = DOMAIN CoreCliDisk



\* The non-private packages discovery finds in the workspace of r.
Publishable(r) ==
  LET NotPrivate(pkg) == ~pkg.isPrivate
  IN SelectSeq(discoverPackages([disk |-> r.fs.disk, listing |-> r.listing]).packages,
               NotPrivate)

\* A real run in which the publish command succeeded for every package of
\* the publish set.
AllPublished(r) ==
  /\ ~r.opts.dryRun
  /\ InStages(r, "Publish")
  /\ Len(r.packages) > 0
  /\ Len(r.published) = Len(r.packages)
  /\ \A k \in EventsOf(r, "publish") : r.log[k].ok

ResolvedRegistry(r) == IF r.opts.registry # "" THEN r.opts.registry ELSE REGISTRIES.npm

\* C14: with --ci and a --version value no prompt is ever presented; the
\* publish set is the full publishable set, the registry is the --registry
\* value or else the public registry, and a real run that published every
\* package and is done has invoked the tag command and, where that
\* succeeded, the push command after it.
C14_CiNeverPrompts ==
  (run.opts.ci /\ run.opts.version # <<>>) =>
    /\ EventsOf(run, "prompt") = {}
    /\ run.pc \notin {"select", "confirmBump", "selectBump", "confirmTag", "confirmPush"}
    /\ InStages(run, "Ordering") => NamesOf(run.packages) = NamesOf(Publishable(run))
    /\ InStages(run, "Registry") => run.registry = ResolvedRegistry(run)
    /\ (AllPublished(run) /\ InStages(run, "Done")) =>
         /\ \E k \in EventsOf(run, "tag") : run.log[k].ver = TagName(run.newVersion)
         /\ \A k \in EventsOf(run, "tag") :
              run.log[k].ok => \E j \in EventsOf(run, "push") :
                                 j > k /\ run.log[j].ver = TagName(run.newVersion)

\* A CI run over the chain (its private package left out), published, tagged
\* and pushed.
C14_Witness ==
  /\ run.opts.ci
  /\ run.pc = "exited"
  /\ run.exitCode = 0
  /\ NamesOf(run.packages) = {"core", "lib", "app"}
  /\ AllPublished(run)
  /\ run.git.pushed # <<>>
  /\ run.registry = REGISTRIES.npm

ConfirmKinds == {"confirm:bump", "confirm:continue", "confirm:tag", "confirm:push"}

\* The package multi-select is on screen or was answered.
MultiSelectPresented(r) ==
  r.pc = "select" \/ \E k \in EventsOf(r, "prompt") : r.log[k].name = "multiSelect"

RegistrySelectPresented(r) ==
  \E k \in EventsOf(r, "prompt") : r.log[k].name = "select:registry"

\* C15: with --yes and without --ci no yes/no prompt is ever presented; the
\* package multi-select is presented exactly when more than one publishable
\* package was discovered, the registry select exactly when no --registry was
\* given.
C15_YesKeepsChoices ==
  (run.opts.skipConfirms /\ ~run.opts.ci) =>
    /\ \A k \in EventsOf(run, "prompt") : run.log[k].name \notin ConfirmKinds
    /\ run.pc \notin {"confirmBump", "confirmTag", "confirmPush"}
    /\ InStages(run, "Ordering") =>
         (MultiSelectPresented(run) <=> Len(Publishable(run)) > 1)
    /\ InStages(run, "Registry") =>
         (RegistrySelectPresented(run) <=> run.opts.registry = "")

\* A --yes run over three packages that presented both choice prompts and
\* published.
C15_Witness ==
  /\ run.opts.skipConfirms /\ ~run.opts.ci
  /\ run.pc = "exited"
  /\ run.exitCode = 0
  /\ Len(Publishable(run)) = 3
  /\ MultiSelectPresented(run)
  /\ RegistrySelectPresented(run)
  /\ AllPublished(run)



TaggingPoints == {"confirmTag", "createTag", "confirmPush", "pushTag", "done"}

\* C16: once every publish of a real run has succeeded, the run is in its
\* tagging step or at Done, or has exited with code 0 through Done, whatever
\* the tag and push commands returned.
C16_TaggingNeverFatal ==
  AllPublished(run) =>
    \/ run.pc \in TaggingPoints
    \/ run.pc = "exited" /\ run.exitCode = 0 /\ InStages(run, "Done")

\* A run whose tag command or push command failed, ended.
C16_Witness ==
  /\ AllPublished(run)
  /\ run.pc = "exited"
  /\ \/ \E k \in EventsOf(run, "tag") : ~run.log[k].ok
     \/ \E k \in EventsOf(run, "push") : ~run.log[k].ok

TagAttempted(r) == EventsOf(r, "tag") # {}

Untouched(r) ==
  /\ r.fs.writes = <<>>
  /\ r.git.commits = <<>>
  /\ r.git.tags = <<>>
  /\ r.published = <<>>
  /\ \A k \in 1..Len(r.log) : r.log[k].op \notin (MutatingOps \cup {"build"})

\* C18: the uncommitted-changes check is the first thing a run does after its
\* flags; in a real run uncommitted changes make it exit with code 1 there,
\* before discovery and with nothing written, committed, built, published or
\* tagged; in a dry run they do not stop it.
C18_DirtyTreeAborts ==
  /\ [](run.pc = "preflight" => run.log = <<>> /\ run.stages = <<>> /\ Untouched(run))
  /\ [][ (run.pc = "preflight" /\ run.git.dirty) =>
           IF run.opts.dryRun
           THEN run'.pc = "discover"
           ELSE /\ run'.pc = "exited"
                /\ run'.exitCode = 1
                /\ ~InStages(run', "Discovery")
                /\ run'.fs = run.fs
                /\ Untouched(run') ]_vars

\* A real run stopped by uncommitted changes.
C18_Witness ==
  /\ ~run.opts.dryRun
  /\ run.git.dirty
  /\ run.pc = "exited"
  /\ run.exitCode = 1
  /\ run.stages = <<"Preflight">>

\* C19: when discovery yields no non-private package the run exits with code
\* 1 with no prompt presented and nothing written, committed, built,
\* published or tagged.
C19_NothingPublishableAborts ==
  (InStages(run, "Discovery") /\ Len(Publishable(run)) = 0) =>
    /\ run.pc = "exited"
    /\ run.exitCode = 1
    /\ EventsOf(run, "prompt") = {}
    /\ Untouched(run)

\* The workspace of two private packages, after discovery.
C19_Witness ==
  /\ InStages(run, "Discovery")
  /\ DOMAIN run.fs.disk = DOMAIN PrivateDisk
  /\ run.pc = "exited"

EmptySelection(r) ==
  \E k \in EventsOf(r, "prompt") :
    r.log[k].name = "multiSelect" /\ r.log[k].ok /\ r.log[k].args = {}

\* C20: when the operator confirms the package multi-select with nothing
\* selected the run exits with code 0 and nothing is written, committed,
\* built, published or tagged.
C20_EmptySelectionExits ==
  EmptySelection(run) =>
    /\ run.pc = "exited"
    /\ run.exitCode = 0
    /\ Untouched(run)

\* A real run over three packages, nothing selected.
C20_Witness ==
  /\ EmptySelection(run)
  /\ ~run.opts.dryRun
  /\ Len(run.packages) = 3
  /\ run.pc = "exited"



(***************************************************************************)
(* Claims about declining, stage order, retries and the registry.          *)
(***************************************************************************)

Declined(r, kind) == PromptAnswered(r, kind, FALSE)

FailedPublish(r) == \E k \in EventsOf(r, "publish") : ~r.log[k].ok

\* C21 as stated: a run in which the operator declined at a confirmation
\* point ends with exit code 0.
C21_DeclineAsStated ==
  (run.pc = "exited" /\ \E kind \in ConfirmKinds : Declined(run, kind)) =>
    run.exitCode = 0

\* C21, amended: declining "Continue?" ends the run at once with exit code 0
\* and nothing published or tagged; after declining the tag or the push the
\* run is at Done or has exited with code 0 through Done; declining the bump
\* writes nothing and does not end the run, which then exits with code 1 only
\* when the build, the verification or a publish failed.
C21_DeclineAmended ==
  /\ Declined(run, "confirm:continue") =>
       /\ run.pc = "exited" /\ run.exitCode = 0
       /\ EventsOf(run, "publish") = {} /\ run.running = <<>>
       /\ NoTagging(run)
  /\ (Declined(run, "confirm:tag") \/ Declined(run, "confirm:push")) =>
       \/ run.pc = "done"
       \/ run.pc = "exited" /\ run.exitCode = 0 /\ InStages(run, "Done")
  /\ Declined(run, "confirm:bump") =>
       /\ run.fs.writes = <<>>
       /\ run.newVersion = run.currentVersion
       /\ (run.pc = "exited" /\ run.exitCode = 1) => (BuildBroken(run) \/ FailedPublish(run))

\* The operator bumped, the build passed, and the operator said no to
\* "Continue?".
C21_Witness ==
  /\ Declined(run, "confirm:continue")
  /\ PromptAnswered(run, "confirm:bump", TRUE)
  /\ \E k \in EventsOf(run, "build") : run.log[k].ok
  /\ run.pc = "exited"

\* The packages discovery finds, private ones included.
Discovered(r) == discoverPackages([disk |-> r.fs.disk, listing |-> r.listing]).packages

PrivateOnes(r) ==
  LET IsPrivate(pkg) == pkg.isPrivate
  IN SelectSeq(Discovered(r), IsPrivate)

\* The names a manifest lists in any of its dependency maps.
ListedNames(packageJson) ==
  {e.name : e \in {packageJson.dependencies[k] : k \in 1..Len(packageJson.dependencies)}
               \cup {packageJson.devDependencies[k] : k \in 1..Len(packageJson.devDependencies)}
               \cup {packageJson.peerDependencies[k] : k \in 1..Len(packageJson.peerDependencies)}}

SeqElems(q) == {q[k] : k \in 1..Len(q)}

\* C22: a private package is never in the publish set, never written and
\* never published, while a package of the publish set that lists it has it
\* in its localDependencies; and the ordered publishable set holds every
\* publishable package exactly once.
C22_PrivateExcluded ==
  /\ \A i \in 1..Len(run.packages) :
       /\ ~run.packages[i].isPrivate
       /\ run.packages[i].name \notin NamesOf(PrivateOnes(run))
       /\ \A n \in NamesOf(PrivateOnes(run)) :
            n \in ListedNames(run.fs.disk[run.packages[i].path])
              => n \in SeqElems(run.packages[i].localDependencies)
  /\ \A k \in EventsOf(run, "publish") : run.log[k].name \notin NamesOf(PrivateOnes(run))
  /\ \A k \in EventsOf(run, "write") :
       \A i \in 1..Len(PrivateOnes(run)) : run.log[k].args # PrivateOnes(run)[i].path
  /\ (InStages(run, "Ordering") /\ ~InStages(run, "Selection") /\ run.pc # "select") =>
       /\ Len(run.packages) = Len(Publishable(run))
       /\ NamesOf(run.packages) = NamesOf(Publishable(run))
       /\ DistinctNames(run.packages)

\* The chain in CI mode: app lists the private package, which stays out of
\* the three packages published.
C22_Witness ==
  /\ run.opts.ci
  /\ AllPublished(run)
  /\ Len(run.packages) = 3
  /\ NamesOf(PrivateOnes(run)) = {"priv"}
  /\ \E i \in 1..3 : "priv" \in SeqElems(run.packages[i].localDependencies)
  /\ run.fs.writes # <<>>



\* The events of the log in which a select prompt of one kind was answered.
Choices(r, kind) == {k \in EventsOf(r, "prompt") : r.log[k].name = kind}

\* The commit of the version bump: commitVersionBump stages and commits
\* without asking for the status first, as createGitTag does.
BumpCommit(r, k) ==
  /\ r.log[k].op = "commit"
  /\ (k <= 2 \/ r.log[k - 2].op # "status")

BumpCommits(r) == {k \in EventsOf(r, "commit") : BumpCommit(r, k)}

\* The phase of the pipeline an event of the log belongs to; 0 for the events
\* that belong to no phase of their own.
EventRank(r, k) ==
  CASE r.log[k].op = "write" -> 1
    [] BumpCommit(r, k) -> 1
    [] r.log[k].op = "prompt" /\ r.log[k].name = "select:registry" -> 2
    [] r.log[k].op = "build" -> 3
    [] r.log[k].op = "publish" -> 4
    [] r.log[k].op = "tag" -> 5
    [] r.log[k].op = "push" -> 6
    [] OTHER -> 0

StageOrder ==
  <<"Preflight", "Discovery", "Ordering", "Selection", "Version", "Registry",
    "Build", "Publish", "Tag", "Push", "Done">>

StageRank(name) == CHOOSE n \in 1..Len(StageOrder) : StageOrder[n] = name

StagesInOrder(r) ==
  /\ \A k \in 1..Len(r.stages) : \E n \in 1..Len(StageOrder) : StageOrder[n] = r.stages[k]
  /\ \A j, k \in 1..Len(r.stages) : j < k => StageRank(r.stages[j]) < StageRank(r.stages[k])

EventsInOrder(r) ==
  /\ \A j, k \in 1..Len(r.log) :
       (j < k /\ EventRank(r, j) # 0 /\ EventRank(r, k) # 0) => EventRank(r, j) <= EventRank(r, k)
  /\ \A j \in BumpCommits(r) : \A k \in EventsOf(r, "write") : k < j

PushAfterTag(r) ==
  \A j \in EventsOf(r, "push") : \E k \in EventsOf(r, "tag") : k < j /\ r.log[k].ok

AbortIsFinal(r) ==
  \A k \in 1..Len(r.log) :
    ((r.log[k].op \in {"build", "publish"} \/ BumpCommit(r, k)) /\ ~r.log[k].ok) =>
      /\ k = Len(r.log)
      /\ r.pc = "exited" /\ r.exitCode = 1

C24_Order ==
  /\ StagesInOrder(run)
  /\ EventsInOrder(run)
  /\ PushAfterTag(run)
  /\ AbortIsFinal(run)

\* C24: the stages are entered in one fixed order and never again; writes and
\* the bump commit come before the registry choice, then the build, then the
\* publishes, then the tag, then the push; a push follows a tag that was
\* created; a failed build, publish or bump commit is the run's last event,
\* and an exited run takes no further step.
C24_FixedOrder == [](C24_Order) /\ [][run.pc # "exited"]_vars

\* A run that went through every phase: bump written and committed, registry
\* chosen by the operator, build, three publishes, tag and push.
C24_Witness ==
  /\ BumpCommits(run) # {}
  /\ Choices(run, "select:registry") # {}
  /\ AllPublished(run) /\ Len(run.packages) >= 2
  /\ EventsOf(run, "push") # {}
  /\ InStages(run, "Done")

\* C25: when the commit of the version bump fails the run has exited with
\* code 1 without entering registry selection, with no build, publish, tag or
\* push, and the manifests written before it hold the new version on disk.
C25_BumpCommitFailure ==
  \A k \in BumpCommits(run) : ~run.log[k].ok =>
    /\ run.pc = "exited" /\ run.exitCode = 1
    /\ ~InStages(run, "Registry")
    /\ EventsOf(run, "build") \cup EventsOf(run, "publish")
         \cup EventsOf(run, "tag") \cup EventsOf(run, "push") = {}
    /\ Choices(run, "select:registry") = {}
    /\ run.fs.writes # <<>>
    /\ \A i \in 1..Len(run.packages) :
         run.fs.disk[run.packages[i].path].version = run.newVersion

\* The bump commit failed after the manifests of two or more packages were
\* written with a version that differs from the old one.
C25_Witness ==
  /\ \E k \in BumpCommits(run) : ~run.log[k].ok
  /\ Len(run.packages) >= 2
  /\ run.newVersion # run.currentVersion
  /\ Len(run.fs.writes) >= 2

PublishNames(r) ==
  LET IsPublish(e) == e.op = "publish"
      events == SelectSeq(r.log, IsPublish)
  IN [k \in 1..Len(events) |-> events[k].name]

C27_NoRetry ==
  /\ Cardinality(EventsOf(run, "build")) <= 1
  /\ \A j, k \in EventsOf(run, "publish") : run.log[j].name = run.log[k].name => j = k
  /\ Cardinality(BumpCommits(run)) <= 1
  /\ Cardinality(EventsOf(run, "tag")) <= 1
  /\ Cardinality(EventsOf(run, "push")) <= 1
  /\ Cardinality(EventsOf(run, "commit")) <= 2

\* A failed command ended the run or was reported: the second publish failed
\* after the first succeeded.
C27_Witness ==
  /\ run.pc = "exited"
  /\ Cardinality(EventsOf(run, "publish")) = 2
  /\ FailedPublish(run)
  /\ \E k \in EventsOf(run, "build") : run.log[k].ok

\* The registry select's outcome for a typed answer: entry 2 of the list is
\* GitHub Packages, every other answer gives the default, the public registry.
RegistryFor(answer) ==
  IF answer \in {<<"2">>, <<"2", "x">>} THEN REGISTRIES.github ELSE REGISTRIES.npm

\* C28: once registry selection is done the registry is not empty: it is the
\* --registry value when given, else the public registry in CI mode, else
\* what the operator chose, where an empty or invalid answer gives the public
\* registry; and the build starts with a registry resolved.
C28_RegistryResolved ==
  /\ InStages(run, "Registry") =>
       /\ run.registry # ""
       /\ run.opts.registry # "" => run.registry = run.opts.registry /\ Choices(run, "select:registry") = {}
       /\ (run.opts.registry = "" /\ run.opts.ci) =>
            run.registry = REGISTRIES.npm /\ Choices(run, "select:registry") = {}
       /\ (run.opts.registry = "" /\ ~run.opts.ci) =>
            /\ run.registry \in {REGISTRIES.npm, REGISTRIES.github}
            /\ \E k \in Choices(run, "select:registry") : run.log[k].args = run.registry
  /\ run.pc = "registry" =>
       \A in \in Inputs(run) :
         LET after == Main_registry(run, in)
         IN /\ after.registry # ""
            /\ (run.opts.registry = "" /\ ~run.opts.ci) => after.registry = RegistryFor(in.answer)
  /\ (run.pc = "build" \/ EventsOf(run, "build") # {}) =>
       InStages(run, "Registry") /\ run.registry # ""
  /\ REGISTRIES.npm = "https://registry.npmjs.org"

\* The operator picked GitHub Packages and the build ran with it.
C28_Witness ==
  /\ run.opts.registry = "" /\ ~run.opts.ci
  /\ run.registry = REGISTRIES.github
  /\ EventsOf(run, "build") # {}

\* C30: a run whose workspace root has no manifest ends in discovery with
\* exit code 1, the prompt closed, and no write, commit, build, publish or
\* tag.
C30_NoRootManifest ==
  (~HasManifest(run.fs.disk, Root) /\ InStages(run, "Discovery")) =>
    /\ run.pc = "exited" /\ run.exitCode = 1
    /\ run.stages = <<"Preflight", "Discovery">>
    /\ run.packages = <<>>
    /\ ~run.promptOpen
    /\ Untouched(run)

\* Discovery ran on a workspace without a root manifest, after the preflight
\* asked git for the status, and the run is over.
C30_Witness ==
  /\ ~HasManifest(run.fs.disk, Root)
  /\ InStages(run, "Discovery")
  /\ EventsOf(run, "status") # {}
  /\ run.pc = "exited"



(***************************************************************************)
(* discoverPackages as a function of the workspace on disk.                *)
(*                                                                         *)
(* The workspace has a root manifest, private or not, with a workspaces    *)
(* field naming packages/*, naming libs/* (a directory that is not there)  *)
(* or absent.  packages/ does not exist, or it holds the directories a and *)
(* b, or a, b and c and a file.  Each directory holds a manifest or not;   *)
(* the dependency maps of a are drawn over the names of the workspace (its *)
(* own name included) and a name outside it.                               *)
(***************************************************************************)

\* The longest dependencies map of package a.
MaxDepLen == 2

DiscoverNames == {"a", "b", "c", "ext"}

NamedDeps(names) == [k \in 1..Len(names) |-> Dep(names[k], Caret(V100))]

DiscoverPatterns == {<<>>, <<"packages/*">>, <<"libs/*">>}

DiscoverListings ==
  { NoDir,
    <<Dir("a"), Dir("b")>>,
    <<Dir("a"), File("README.md"), Dir("b"), Dir("c")>> }

Lists(listing, name) == \E k \in 1..Len(listing) : listing[k] = Dir(name)

\* The manifest of packages/b and packages/c, <<>> for a directory without one.
OptionalManifests(name, depOptions) ==
  {<<>>} \cup {<<Manifest(name, V100, private, NamedDeps(d), <<>>, <<>>)>> :
                 private \in BOOLEAN, d \in depOptions}

DiscoverDisk(private, workspaces, ma, mb, mc) ==
  (Root :> RootManifest(private, workspaces))
    @@ (IF ma = <<>> THEN <<>> ELSE (PackagesPath("a") :> ma[1]))
    @@ (IF mb = <<>> THEN <<>> ELSE (PackagesPath("b") :> mb[1]))
    @@ (IF mc = <<>> THEN <<>> ELSE (PackagesPath("c") :> mc[1]))

InitDiscover ==
  /\ \E workspaces \in DiscoverPatterns, listing \in DiscoverListings, private \in BOOLEAN :
       \E da \in DistinctSeqs(DiscoverNames, MaxDepLen),
          dv \in DistinctSeqs(DiscoverNames, 1),
          dp \in DistinctSeqs(DiscoverNames, 1) :
         \E ma \in {<<>>, <<Manifest("a", V100, FALSE,
                                     NamedDeps(da), NamedDeps(dv), NamedDeps(dp))>>},
            mb \in OptionalManifests("b", {<<>>, <<"a">>}),
            mc \in OptionalManifests("c", {<<>>}) :
           /\ ma # <<>> => Lists(listing, "a")
           /\ mb # <<>> => Lists(listing, "b")
           /\ mc # <<>> => Lists(listing, "c")
           /\ call = [fn |-> "discoverPackages",
                      ws |-> Workspace(DiscoverDisk(private, workspaces, ma, mb, mc),
                                       listing)]
  /\ ret = NoRet
  /\ Idle

Call_discoverPackages ==
  /\ call.fn = "discoverPackages"
  /\ ~ret.done
  /\ ret' = [done |-> TRUE, value |-> discoverPackages(call.ws)]
  /\ UNCHANGED <<call, run, twin>>

SpecDiscover == InitDiscover /\ [][Call_discoverPackages]_vars

Returned == call.fn = "discoverPackages" /\ ret.done

NoRepeat(q) == \A j, k \in 1..Len(q) : q[j] = q[k] => j = k

\* C23 as stated: every entry of P's localDependencies names a package of the
\* batch other than P, and no name occurs twice.
C23_LocalDepsAsStated ==
  Returned =>
    \A i \in 1..Len(ret.value.packages) :
      LET P == ret.value.packages[i]
      IN /\ SeqElems(P.localDependencies) \subseteq NamesOf(ret.value.packages) \ {P.name}
         /\ NoRepeat(P.localDependencies)

\* C23, amended: every entry of P's localDependencies names a package of the
\* batch, P itself only when P's manifest lists its own name, never a name
\* outside the batch, and no name occurs twice.
C23_LocalDepsAmended ==
  Returned =>
    \A i \in 1..Len(ret.value.packages) :
      LET P == ret.value.packages[i]
      IN /\ SeqElems(P.localDependencies) \subseteq NamesOf(ret.value.packages)
         /\ P.name \in SeqElems(P.localDependencies) =>
              P.name \in ListedNames(call.ws.disk[P.path])
         /\ NoRepeat(P.localDependencies)

\* Package a lists b in two of its maps and a name outside the batch in the
\* third; b is recorded once and the outside name is not.
C23_Witness ==
  /\ Returned
  /\ \E i \in 1..Len(ret.value.packages) :
       LET P == ret.value.packages[i]
           json == call.ws.disk[P.path]
       IN /\ P.localDependencies = <<"b">>
          /\ "b" \in NamesOf(json.dependencies) \cap NamesOf(json.devDependencies)
          /\ "ext" \in NamesOf(json.peerDependencies)

\* The directories of packages/ that hold a manifest.
LoadableDirs(ws) ==
  {k \in 1..Len(ws.listing) :
     ws.listing[k].isDirectory /\ <<"packages", ws.listing[k].name>> \in DOMAIN ws.disk}

\* C29: discovery does not fail on a directory without a manifest, and it
\* returns one package for each directory of packages/ that holds a manifest,
\* with workspaces ["packages/*"] as well as with the packages/ fallback; two
\* directories, one of them with a manifest, give one package.
C29_SkipsWithoutManifest ==
  (/\ Returned
   /\ call.ws.disk[Root].workspaces \in {<<>>, <<"packages/*">>}
   /\ call.ws.listing # NoDir) =>
    /\ ~ret.value.threw
    /\ Len(ret.value.packages) = Cardinality(LoadableDirs(call.ws))
    /\ \A k \in LoadableDirs(call.ws) :
         LET dir == <<"packages", call.ws.listing[k].name>>
             hits == {i \in 1..Len(ret.value.packages) : ret.value.packages[i].path = dir}
         IN /\ Cardinality(hits) = 1
            /\ \A i \in hits : ret.value.packages[i].name = call.ws.disk[dir].name
    /\ (Len(call.ws.listing) = 2 /\ Cardinality(LoadableDirs(call.ws)) = 1) =>
         Len(ret.value.packages) = 1

\* Two directories under packages/, b without a manifest, the root manifest
\* declaring workspaces ["packages/*"]: one package is returned.
C29_Witness ==
  /\ Returned
  /\ call.ws.disk[Root].workspaces = <<"packages/*">>
  /\ call.ws.listing = <<Dir("a"), Dir("b")>>
  /\ PackagesPath("b") \notin DOMAIN call.ws.disk
  /\ Len(ret.value.packages) = 1

\* The same with the packages/ fallback and a third directory.
C29_WitnessFallback ==
  /\ Returned
  /\ call.ws.disk[Root].workspaces = <<>>
  /\ Len(call.ws.listing) = 4
  /\ Cardinality(LoadableDirs(call.ws)) = 2
  /\ Len(ret.value.packages) = 2



(***************************************************************************)
(* Claims about what a run leaves behind.                                  *)
(***************************************************************************)

BumpCommitted(r) == \E k \in BumpCommits(r) : r.log[k].ok

BumpInPlace(r) ==
  /\ r.git.commits # <<>> /\ r.git.commits[1] = TagName(r.newVersion)
  /\ \A i \in 1..Len(r.packages) :
       LET packageJson == r.fs.disk[r.packages[i].path]
           allDeps == packageJson.dependencies \o packageJson.devDependencies
                        \o packageJson.peerDependencies
       IN /\ packageJson.version = r.newVersion
          /\ \A k \in 1..Len(allDeps) :
               allDeps[k].name \in NamesOf(r.packages)
                 => SpecifierIs(allDeps[k].spec, r.newVersion)

\* C31: from the commit of the version bump on, whatever follows (a failed
\* build, verification or publish, a "no" to "Continue?"), the manifests of
\* the publish set hold the new version and the rewritten specifiers, the
\* bump commit is in place, and no step changes a manifest or drops a commit.
C31_NoRollback ==
  /\ [](BumpCommitted(run) => BumpInPlace(run))
  /\ [][BumpCommitted(run) =>
          /\ run'.fs = run.fs
          /\ IsPrefix(run.git.commits, run'.git.commits)]_vars

\* The version was bumped and committed, then the build or the verification
\* failed: the manifests are at the new version.
C31_Witness ==
  /\ BumpCommitted(run)
  /\ run.pc = "exited" /\ run.exitCode = 1
  /\ BuildBroken(run)
  /\ run.newVersion # run.currentVersion
  /\ Len(run.packages) >= 2
  /\ run.fs.disk[run.packages[1].path].version = run.newVersion

\* The same for a failed publish and for a declined "Continue?".
C31_WitnessPublish ==
  /\ BumpCommitted(run) /\ run.newVersion # run.currentVersion
  /\ run.pc = "exited" /\ FailedPublish(run)

C31_WitnessDeclined ==
  /\ BumpCommitted(run) /\ run.newVersion # run.currentVersion
  /\ run.pc = "exited" /\ Declined(run, "confirm:continue")



(***************************************************************************)
(* updateLocalDependencyVersions applied twice.                            *)
(***************************************************************************)

DepsReturned == call.fn = "updateLocalDependencyVersions" /\ ret.done

\* The second application, on what the first one left.
SecondApplication ==
  updateLocalDependencyVersions(ret.value, call.packages, call.newVersion, call.dryRun)

\* A manifest is written when, and only when, the call changed it, and once.
WritesOnlyChanges ==
  /\ \A k \in 1..Len(ret.value.writes) :
       ret.value.disk[ret.value.writes[k]] # call.fs.disk[ret.value.writes[k]]
  /\ \A d \in DOMAIN call.fs.disk :
       ret.value.disk[d] # call.fs.disk[d] => d \in SeqElems(ret.value.writes)
  /\ NoRepeat(ret.value.writes)

\* C32 as stated: a manifest is written only when one of its entries changed,
\* and a second application with the same package set and newVersion changes
\* nothing and writes nothing.
C32_IdempotentAsStated ==
  DepsReturned =>
    /\ WritesOnlyChanges
    /\ SecondApplication = ret.value

\* C32, amended: a manifest is written only when one of its entries changed;
\* when newVersion does not itself begin with ^ or ~, a second application
\* with the same package set and newVersion changes nothing and writes
\* nothing.
C32_IdempotentAmended ==
  DepsReturned =>
    /\ WritesOnlyChanges
    /\ (~StartsWith(call.newVersion, "^") /\ ~StartsWith(call.newVersion, "~")) =>
         SecondApplication = ret.value

\* The first application rewrote and wrote a manifest; the second one, with
\* the same arguments, leaves the file system as it found it.
C32_Witness ==
  /\ DepsReturned /\ ~call.dryRun
  /\ call.newVersion = V200
  /\ ret.value.writes # <<>>
  /\ ret.value.disk # call.fs.disk
  /\ SecondApplication = ret.value



PathsOf(packages) == {packages[i].path : i \in 1..Len(packages)}

\* The directories of packages/ that hold a manifest, as paths.
LoadablePaths(ws) ==
  {<<"packages", ws.listing[k].name>> : k \in LoadableDirs(ws)}

\* C33: discovery takes its member directories from the declared workspace
\* patterns when there are any, even when they match nothing; else from the
\* subdirectories of packages/ when that directory exists, even when none
\* holds a manifest; else the result is the root package alone, with no local
\* dependencies, when the root manifest is not private, and empty when it is.
C33_DiscoveryPriority ==
  Returned =>
    LET ws == call.ws
        rootPackageJson == ws.disk[Root]
        result == ret.value.packages
    IN /\ ~ret.value.threw
       /\ rootPackageJson.workspaces = <<"libs/*">> => result = <<>>
       /\ rootPackageJson.workspaces = <<"packages/*">> =>
            /\ PathsOf(result) = (IF ws.listing = NoDir THEN {} ELSE LoadablePaths(ws))
            /\ Len(result) = Cardinality(PathsOf(result))
       /\ (rootPackageJson.workspaces = <<>> /\ ws.listing # NoDir) =>
            /\ PathsOf(result) = LoadablePaths(ws)
            /\ Len(result) = Cardinality(PathsOf(result))
       /\ (rootPackageJson.workspaces = <<>> /\ ws.listing = NoDir) =>
            result = IF rootPackageJson.private THEN <<>>
                     ELSE <<Pkg(rootPackageJson.name, rootPackageJson.version, Root,
                                FALSE, <<>>)>>

\* The declared pattern matches nothing while packages/ holds two manifests
\* and the root is not private: nothing is discovered.
C33_Witness ==
  /\ Returned
  /\ call.ws.disk[Root].workspaces = <<"libs/*">>
  /\ ~call.ws.disk[Root].private
  /\ Cardinality(LoadableDirs(call.ws)) = 2
  /\ ret.value.packages = <<>>

\* packages/ exists and none of its directories holds a manifest: nothing is
\* discovered, the root is not taken.
C33_WitnessEmptyPackages ==
  /\ Returned
  /\ call.ws.disk[Root].workspaces = <<>> /\ ~call.ws.disk[Root].private
  /\ call.ws.listing # NoDir /\ LoadableDirs(call.ws) = {}
  /\ ret.value.packages = <<>>

\* Single-package mode.
C33_WitnessSingle ==
  /\ Returned
  /\ call.ws.disk[Root].workspaces = <<>> /\ ~call.ws.disk[Root].private
  /\ call.ws.listing = NoDir
  /\ Len(ret.value.packages) = 1 /\ ret.value.packages[1].path = Root



\* What a step leaves alone on disk: the manifests outside the publish set,
\* and in every manifest the entries keyed by a name outside the publish set.
OutsideKept(before, after) ==
  \A d \in DOMAIN before.fs.disk :
    LET old == before.fs.disk[d]
        new == after.fs.disk[d]
    IN /\ d \notin PathsOf(after.packages) => new = old
       /\ \A t \in 1..Len(depTypes) :
            /\ Len(new[depTypes[t]]) = Len(old[depTypes[t]])
            /\ \A i \in 1..Len(old[depTypes[t]]) :
                 old[depTypes[t]][i].name \notin NamesOf(after.packages)
                   => new[depTypes[t]][i] = old[depTypes[t]][i]

\* C34: every manifest written is the manifest of a package of the publish
\* set, and no step changes the manifest of a package outside it (deselected
\* or private) or the specifier of a dependency on such a package.
C34_OnlyPublishSetTouched ==
  /\ [](\A k \in EventsOf(run, "write") : run.log[k].args \in PathsOf(run.packages))
  /\ [][OutsideKept(run, run')]_vars

\* The chain narrowed to core and app, bumped to 1.1.0: app's dependency on
\* the deselected lib and on the private priv keep their specifiers, its
\* dependency on core is rewritten, and lib's manifest stays at 0.9.0.
C34_Witness ==
  /\ PromptAnswered(run, "multiSelect", TRUE)
  /\ NamesOf(run.packages) = {"core", "app"}
  /\ run.newVersion = V110
  /\ Len(run.fs.writes) >= 2
  /\ run.fs.disk[PackagesPath("app")].version = V110
  /\ run.fs.disk[PackagesPath("app")].dependencies[1] = Dep("lib", V090)
  /\ run.fs.disk[PackagesPath("app")].devDependencies = <<Dep("priv", Caret(V100))>>
  /\ run.fs.disk[PackagesPath("app")].peerDependencies = <<Dep("core", Tilde(V110))>>
  /\ run.fs.disk[PackagesPath("lib")].version = V090
  /\ run.fs.disk[PackagesPath("priv")].version = V100



\* --yes alone: neither --ci nor --version.
YesOnly(r) == r.opts.skipConfirms /\ ~r.opts.ci /\ r.opts.version = <<>>

MissingArtifacts(r) ==
  {<<i, k>> \in (1..Len(r.packages)) \X (1..3) :
     LET files == filesToCheck(r.fs.disk[r.packages[i].path])
     IN k <= Len(files) /\ JoinFile(r.packages[i].path, files[k]) \notin r.files}

DryBuild(r) == r.opts.dryRun /\ ~r.opts.skipBuild /\ InStages(r, "Build")

\* C36: in a dry run that does not skip the build, the build command is not
\* run and no file appears; when a collected artifact of any package of the
\* publish set (a declared entry, or dist/index.js where none is declared) is
\* not on disk the run has exited with code 1 before the publish stage, and
\* otherwise the run did not fail.
C36_DryRunStillVerifies ==
  /\ [](DryBuild(run) =>
          /\ EventsOf(run, "build") = {}
          /\ MissingArtifacts(run) # {} =>
               /\ run.pc = "exited" /\ run.exitCode = 1
               /\ ~InStages(run, "Publish")
          /\ MissingArtifacts(run) = {} => ~(run.pc = "exited" /\ run.exitCode = 1))
  /\ [][run.opts.dryRun => run'.files = run.files]_vars

\* A dry run over several packages: the artifacts of the first one in the
\* order are on disk, those of a later one are not, and the run exited with
\* code 1.
C36_Witness ==
  /\ DryBuild(run)
  /\ run.pc = "exited" /\ run.exitCode = 1
  /\ Len(run.packages) >= 2
  /\ verifyBuild(run, run.packages[1]).success
  /\ MissingArtifacts(run) # {}

\* The missing file is the default dist/index.js of a package that declares
\* no entry.
C36_WitnessDefault ==
  /\ DryBuild(run)
  /\ run.pc = "exited" /\ run.exitCode = 1
  /\ \E m \in MissingArtifacts(run) :
       filesToCheck(run.fs.disk[run.packages[m[1]].path]) = <<DefaultEntry>>



(***************************************************************************)
(* multiSelect under every sequence of keys.                               *)
(*                                                                         *)
(* Init draws the number of options and allSelectedByDefault; each step is *)
(* one data event of stdin while the listener is attached.                 *)
(***************************************************************************)

\* The most options of a prompt, and the most keys pressed.
MaxOptions == 3
MaxKeys == 4

OptionValues == <<"core", "cli", "app", "docs", "web">>

Keys ==
  {CtrlC, "\\r", "\\n", " ", ArrowUp, "k", ArrowDown, "j", "a", "n", "x", "aa", "A"}

InitMulti ==
  /\ \E n \in 1..MaxOptions, allSelectedByDefault \in BOOLEAN :
       /\ call = [fn |-> "multiSelect", options |-> SubSeq(OptionValues, 1, n),
                  allSelectedByDefault |-> allSelectedByDefault]
       /\ ret = [done |-> FALSE, keys |-> 0, last |-> "",
                 prompt |-> multiSelect(SubSeq(OptionValues, 1, n), allSelectedByDefault)]
  /\ Idle

Keypress ==
  /\ call.fn = "multiSelect"
  /\ ret.prompt.listening
  /\ ret.keys < MaxKeys
  /\ \E str \in Keys :
       LET after == onKeypress(ret.prompt, call.options, str)
       IN ret' = [done |-> after.resolved # <<>>, keys |-> ret.keys + 1, last |-> str,
                  prompt |-> after]
  /\ UNCHANGED <<call, run, twin>>

SpecMulti == InitMulti /\ [][Keypress]_vars

Prompting == call.fn = "multiSelect"

\* The 0-based indices of the options.
Indices == 0..(Len(call.options) - 1)

\* v lists the values of exactly the options with an index in chosen, in the
\* order of the options.
InOptionOrder(v, chosen) ==
  /\ Len(v) = Cardinality(chosen)
  /\ \A i \in chosen : \E k \in 1..Len(v) : v[k] = call.options[i + 1]
  /\ \A j, k \in 1..Len(v) :
       j < k => \E a, b \in chosen : a < b /\ v[j] = call.options[a + 1]
                                         /\ v[k] = call.options[b + 1]

MultiWithinRange ==
  Prompting =>
    /\ ret.prompt.cursor \in Indices
    /\ ret.prompt.selected \subseteq Indices
    /\ Len(ret.prompt.resolved) <= 1
    /\ ret.prompt.resolved # <<>> =>
         /\ ~ret.prompt.listening /\ ~ret.prompt.exited
         /\ ret.last \in {"\\r", "\\n"}
         /\ InOptionOrder(ret.prompt.resolved[1], ret.prompt.selected)
         /\ (ret.keys = 1 /\ call.allSelectedByDefault) =>
              ret.prompt.resolved[1] = call.options

\* What the key of a step does to the prompt.
KeyEffect(before, after, str) ==
  LET n == Len(call.options)
  IN CASE str \in {ArrowUp, "k"} ->
            /\ after.cursor = (before.cursor + n - 1) % n
            /\ after.selected = before.selected /\ after.resolved = before.resolved
       [] str \in {ArrowDown, "j"} ->
            /\ after.cursor = (before.cursor + 1) % n
            /\ after.selected = before.selected /\ after.resolved = before.resolved
       [] str = " " ->
            /\ after.selected = (before.selected \ {before.cursor})
                                  \cup ({before.cursor} \ before.selected)
            /\ after.cursor = before.cursor /\ after.resolved = before.resolved
       [] str = "a" ->
            /\ after.selected = Indices
            /\ after.cursor = before.cursor /\ after.resolved = before.resolved
       [] str = "n" ->
            /\ after.selected = {}
            /\ after.cursor = before.cursor /\ after.resolved = before.resolved
       [] str \in {"\\r", "\\n"} ->
            /\ Len(after.resolved) = Len(before.resolved) + 1
            /\ after.selected = before.selected /\ after.cursor = before.cursor
       [] str = CtrlC ->
            /\ after.exited /\ ~after.listening /\ after.resolved = before.resolved
       [] OTHER -> after = before

\* C37: whatever keys are pressed, the cursor and the selected indices stay
\* within the options; up and down move the cursor by one and wrap around,
\* space toggles the index under the cursor, a selects all, n none, any other
\* key changes nothing; Enter resolves once, with the values of exactly the
\* selected options in option order, which is every option when Enter is the
\* first key of a prompt with allSelectedByDefault; no key is handled after
\* Enter.
C37_MultiSelect ==
  /\ [](MultiWithinRange)
  /\ [][Prompting => (ret.prompt.listening /\ KeyEffect(ret.prompt, ret'.prompt, ret'.last))]_vars

\* Three options, all selected at first: the second was toggled off, the
\* cursor went back to the first, and Enter returned the first and the third.
C37_Witness ==
  /\ Prompting /\ call.allSelectedByDefault
  /\ Len(call.options) = 3
  /\ ret.prompt.resolved = << <<"core", "app">> >>
  /\ ret.prompt.cursor = 0
  /\ ret.keys = 4

\* Up from the first option goes to the last one.
C37_WitnessWrap ==
  /\ Prompting /\ Len(call.options) = 3
  /\ ret.keys = 1 /\ ret.last = ArrowUp
  /\ ret.prompt.cursor = 2



(***************************************************************************)
(* Termination.                                                            *)
(*                                                                         *)
(* main is one thread of control that waits for one command or one answer  *)
(* at a time; when every command exits and every prompt is answered, the   *)
(* step it waits for is eventually taken: weak fairness of every step.     *)
(* The discovery and the two version steps are enabled exactly while the   *)
(* run is at their await point and they leave it, so their weak fairness   *)
(* is written as: the run is not at that point for ever.                   *)
(***************************************************************************)

Fairness ==
  /\ WF_vars(Start) /\ WF_vars(Preflight) /\ WF_vars(Select) /\ WF_vars(ConfirmBump)
  /\ WF_vars(Commit) /\ WF_vars(Registry) /\ WF_vars(Build) /\ WF_vars(PublishIntro)
  /\ WF_vars(Publish) /\ WF_vars(Published) /\ WF_vars(ConfirmTag) /\ WF_vars(CreateTag)
  /\ WF_vars(ConfirmPush) /\ WF_vars(PushTag) /\ WF_vars(Done)
  /\ []<>(run.pc # "discover")
  /\ []<>(run.pc # "versionFlag")
  /\ []<>(run.pc # "selectBump")

SpecLive == Spec /\ Fairness

\* The three ways a run ends.
EndedDone(r) == r.pc = "exited" /\ r.exitCode = 0 /\ InStages(r, "Done")
EndedClean(r) == r.pc = "exited" /\ r.exitCode = 0 /\ ~InStages(r, "Done")
EndedFatal(r) == r.pc = "exited" /\ r.exitCode = 1 /\ ~InStages(r, "Done")

\* C38: every run, over every workspace, those with a dependency cycle
\* included, eventually ends and stays ended in one of three ways: Done with
\* exit code 0, a clean termination with exit code 0, or a fatal abort with
\* exit code 1; and an ended run takes no further step.
C38_Terminates ==
  /\ <>[](EndedDone(run) \/ EndedClean(run) \/ EndedFatal(run))
  /\ [][~(EndedDone(run) \/ EndedClean(run) \/ EndedFatal(run))]_vars

\* A run over the two packages that depend on each other published both and
\* ended with Done.
C38_Witness ==
  /\ EndedDone(run)
  /\ ~Acyclic(run.packages)
  /\ Len(run.packages) = 2
  /\ AllPublished(run)

\* Runs that ended in the two other ways.
C38_WitnessClean == EndedClean(run) /\ Declined(run, "confirm:continue")

C38_WitnessFatal == EndedFatal(run) /\ FailedPublish(run) /\ ~Acyclic(run.packages)


====
